---- MODULE Spec2Model ----
(***************************************************************************)
(* The Referee: requirements-to-weights transformation, compatibility      *)
(* scoring, recommendation and the command-line pipeline.                  *)
(*                                                                         *)
(* Numbers.  The program computes in floating point.  Here every quantity  *)
(* is an integer count of a unit:                                          *)
(*   - boosts and raw (un-normalized) weights count 1/200 (0.005), which   *)
(*     represents every boost constant of the program exactly;             *)
(*   - normalized weights count 1/Scale; a division rounds down, so a      *)
(*     normalized weight is within a few 1/Scale of the real quotient.     *)
(***************************************************************************)
EXTENDS Integers, Sequences, FiniteSets, TLC

(***************************************************************************)
(* Bounds of the model.                                                    *)
(***************************************************************************)
MaxTeamSize == 30

(***************************************************************************)
(* Units.                                                                  *)
(***************************************************************************)
RawPerOne == 1000 \div 5       \* raw units in 1.0
Scale     == 200 * 200          \* normalized units in 1.0
RawToScale(r) == r * (Scale \div RawPerOne)

(***************************************************************************)
(* models.py: the enumerations and ProjectRequirements.                    *)
(***************************************************************************)
BudgetLevel    == {"LOW", "MEDIUM", "HIGH"}
TimelineLevel  == {"TIGHT", "MODERATE", "FLEXIBLE"}
ScaleLevel     == {"SMALL", "MEDIUM", "LARGE"}
ExpertiseLevel == {"BEGINNER", "INTERMEDIATE", "EXPERT"}

\* ProjectRequirements: team_size has ge=1; the bound caps it from above.
ProjectRequirements ==
    [team_size : 1..MaxTeamSize, budget : BudgetLevel, timeline : TimelineLevel,
     scalability_needs : ScaleLevel, expertise_level : ExpertiseLevel]

\* The weights dict of _calculate_dimension_weights, in insertion order.
WeightOrder == <<"cost", "scalability", "complexity", "ecosystem", "performance">>
\* dimension_boosts, in insertion order.
BoostOrder  == <<"cost", "complexity", "scalability", "performance", "ecosystem">>
StandardDimensions == {"cost", "scalability", "complexity", "ecosystem", "performance"}

(***************************************************************************)
(* Helpers over sequences of <<name, value>> pairs.                        *)
(***************************************************************************)
Max2(a, b) == IF a >= b THEN a ELSE b
Min2(a, b) == IF a <= b THEN a ELSE b

RECURSIVE SumOver(_, _)
SumOver(f, dims) ==
    IF dims = {} THEN 0
    ELSE LET d == CHOOSE x \in dims : TRUE IN f[d] + SumOver(f, dims \ {d})

\* dict.items() of a weights dict.
Items(w) == [i \in 1..Len(WeightOrder) |-> <<WeightOrder[i], w[WeightOrder[i]]>>]

\* sorted(items, key=value, reverse=True): stable, equal values keep input order.
RECURSIVE InsertDesc(_, _)
InsertDesc(sorted, x) ==
    IF sorted = <<>> THEN <<x>>
    ELSE IF Head(sorted)[2] >= x[2] THEN <<Head(sorted)>> \o InsertDesc(Tail(sorted), x)
    ELSE <<x>> \o sorted

RECURSIVE SortedDesc(_)
SortedDesc(items) ==
    IF items = <<>> THEN <<>>
    ELSE InsertDesc(SortedDesc(SubSeq(items, 1, Len(items) - 1)), items[Len(items)])

\* sorted(items, key=value): stable, ascending.
RECURSIVE InsertAsc(_, _)
InsertAsc(sorted, x) ==
    IF sorted = <<>> THEN <<x>>
    ELSE IF Head(sorted)[2] <= x[2] THEN <<Head(sorted)>> \o InsertAsc(Tail(sorted), x)
    ELSE <<x>> \o sorted

RECURSIVE SortedAsc(_)
SortedAsc(items) ==
    IF items = <<>> THEN <<>>
    ELSE InsertAsc(SortedAsc(SubSeq(items, 1, Len(items) - 1)), items[Len(items)])

\* next(i for i, (dim, _) in enumerate(sorted_weights) if dim == name), 0-based.
RankOf(sorted, name) == (CHOOSE i \in 1..Len(sorted) : sorted[i][1] = name) - 1

Names(pairs) == {pairs[i][1] : i \in 1..Len(pairs)}

(***************************************************************************)
(* requirements_processor.py: _calculate_dimension_weights.                *)
(* Boosts are in raw units: 0.15 is 30, 0.015 is 3, 0.02 is 4, 0.2 is 40.  *)
(***************************************************************************)
base_weight == 2 * 20                                       \* 0.2

\* Lines 115-120 with a low budget boosting cost by 0.25.
BudgetCostBoost_stronger_low(budget) ==
    CASE budget = "LOW" -> 50
      [] budget = "MEDIUM" -> 10
      [] budget = "HIGH" -> -6

BudgetCostBoost(budget) ==
    CASE budget = "LOW" -> 30                               \* 0.15
      [] budget = "MEDIUM" -> 10                            \* 0.05
      [] budget = "HIGH" -> -6                              \* -0.03

TimelineComplexityBoost(timeline) ==
    CASE timeline = "TIGHT" -> 30                           \* 0.15
      [] timeline = "MODERATE" -> 12                        \* 0.06
      [] timeline = "FLEXIBLE" -> -12                       \* -0.06

ExpertiseComplexityBoost(expertise) ==
    CASE expertise = "BEGINNER" -> 20                       \* +0.10
      [] expertise = "EXPERT" -> -10                        \* -0.05
      [] OTHER -> 0

\* Lines 139-147 with the LARGE and SMALL branches exchanged.
scale_boosts_inverted(scale) ==
    CASE scale = "SMALL" -> [scalability |-> 36, performance |-> 36]
      [] scale = "MEDIUM" -> [scalability |-> 12, performance |-> 10]
      [] scale = "LARGE" -> [scalability |-> -8, performance |-> -6]

\* Lines 139-147: the boosts of scalability and performance.
scale_boosts(scale) ==
    CASE scale = "LARGE" -> [scalability |-> 36, performance |-> 36]     \* 0.18, 0.18
      [] scale = "MEDIUM" -> [scalability |-> 12, performance |-> 10]    \* 0.06, 0.05
      [] scale = "SMALL" -> [scalability |-> -8, performance |-> -6]     \* -0.04, -0.03

size_boost(team_size) == team_size * 3                      \* team_size * 0.015, no cap

expertise_ecosystem_boost(expertise) ==
    CASE expertise = "BEGINNER" -> 24                       \* 0.12
      [] expertise = "INTERMEDIATE" -> 8                    \* 0.04
      [] OTHER -> -8                                        \* -0.04

dimension_boosts(requirements) ==
    [d \in StandardDimensions |->
        CASE d = "cost" -> BudgetCostBoost(requirements.budget)
          [] d = "complexity" -> TimelineComplexityBoost(requirements.timeline)
                                 + ExpertiseComplexityBoost(requirements.expertise_level)
          [] d = "scalability" -> scale_boosts(requirements.scalability_needs).scalability
          [] d = "performance" -> scale_boosts(requirements.scalability_needs).performance
          [] d = "ecosystem" -> size_boost(requirements.team_size)
                                + expertise_ecosystem_boost(requirements.expertise_level)]

\* Lines 163-169: apply the boosts, then floor every weight at 0.05 (raw 10).
BoostedWeights(requirements) ==
    [d \in StandardDimensions |-> Max2(10, base_weight + dimension_boosts(requirements)[d])]

\* Lines 171-173: weight / total_weight, from raw units to normalized units.
NormalizeRaw(raw) ==
    LET total_weight == SumOver(raw, StandardDimensions)
    IN  [d \in StandardDimensions |-> (raw[d] * Scale) \div total_weight]

\* Lines 226-228 and 255-257: weight / total on normalized weights.
Renormalize(nw) ==
    LET total == SumOver(nw, StandardDimensions)
    IN  [d \in StandardDimensions |-> (nw[d] * Scale) \div total]

\* Lines 177-180: the dimensions with boost > 0.02, by boost, largest first.
highlighted_dimensions(requirements) ==
    LET boosts == dimension_boosts(requirements)
        all    == [i \in 1..Len(BoostOrder) |-> <<BoostOrder[i], boosts[BoostOrder[i]]>>]
    IN  SortedDesc(SelectSeq(all, LAMBDA p : p[2] > 4))

\* Lines 186-192.
competing_high_priority(requirements) ==
    (IF requirements.budget = "LOW" THEN 1 ELSE 0)
    + (IF requirements.timeline = "TIGHT" THEN 1 ELSE 0)
    + (IF requirements.expertise_level = "BEGINNER" THEN 1 ELSE 0)

\* Lines 215-222: take remaining_boost from the lowest weighted dimensions.
RECURSIVE TakeFromLowest(_, _, _, _, _)
TakeFromLowest(nw, sorted_by_weight, i, target_dim, remaining_boost) ==
    IF i > Len(sorted_by_weight) THEN nw
    ELSE LET dim    == sorted_by_weight[i][1]
             weight == sorted_by_weight[i][2]
         IN  IF dim # target_dim /\ remaining_boost > 0
             THEN LET available_reduction == Max2(0, weight - RawToScale(10))
                      reduction == Min2(remaining_boost, available_reduction)
                      reduced   == [nw EXCEPT ![dim] = @ - reduction]
                  IN  IF remaining_boost - reduction <= 0 THEN reduced
                      ELSE TakeFromLowest(reduced, sorted_by_weight, i + 1, target_dim,
                                          remaining_boost - reduction)
             ELSE TakeFromLowest(nw, sorted_by_weight, i + 1, target_dim, remaining_boost)

\* Line 201 with the ranks compared as if they counted from 1.
ScaleOverrideNeeded_counting_from_one(requirements, nw) ==
    /\ requirements.scalability_needs = "LARGE"
    /\ competing_high_priority(requirements) >= 2
    /\ LET sorted_weights == SortedDesc(Items(nw))
       IN  Min2(RankOf(sorted_weights, "scalability"),
                RankOf(sorted_weights, "performance")) + 1 > 2

\* Line 201: neither scalability nor performance is among the first three.
ScaleOverrideNeeded(requirements, nw) ==
    /\ requirements.scalability_needs = "LARGE"
    /\ competing_high_priority(requirements) >= 2
    /\ LET sorted_weights == SortedDesc(Items(nw))
       IN  Min2(RankOf(sorted_weights, "scalability"),
                RankOf(sorted_weights, "performance")) > 2

\* Lines 182-228: the scale-priority override.
ScaleOverride(requirements, nw) ==
    IF ~ScaleOverrideNeeded(requirements, nw) THEN nw
    ELSE LET sorted_weights == SortedDesc(Items(nw))
             target_dim == IF nw["scalability"] >= nw["performance"]
                           THEN "scalability" ELSE "performance"
             third_highest_weight == sorted_weights[3][2]
             target_weight == third_highest_weight + RawToScale(2)      \* + 0.01
             needed_boost  == target_weight - nw[target_dim]
             taken == TakeFromLowest(nw, SortedAsc(Items(nw)), 1, target_dim, needed_boost)
         IN  Renormalize([taken EXCEPT ![target_dim] = target_weight])

\* Lines 235-257: one iteration of the priority loop, for one highlighted dimension.
ForceAboveBaseline(nw, dimension, non_highlighted) ==
    LET baseline_threshold == RawToScale(40)                             \* 0.2
        target_weight == baseline_threshold + RawToScale(2)              \* 0.21
        needed_boost  == target_weight - nw[dimension]
        total_non_highlighted_weight == SumOver(nw, non_highlighted)
    IN  IF nw[dimension] <= baseline_threshold
           /\ non_highlighted # {}
           /\ total_non_highlighted_weight > needed_boost
        THEN Renormalize(
               [d \in StandardDimensions |->
                  IF d = dimension THEN target_weight
                  ELSE IF d \in non_highlighted
                  THEN Max2(RawToScale(10),
                            nw[d] - ((needed_boost * nw[d]) \div total_non_highlighted_weight))
                  ELSE nw[d]])
        ELSE nw

RECURSIVE PriorityLoop(_, _, _, _)
PriorityLoop(nw, top, i, non_highlighted) ==
    IF i > Len(top) THEN nw
    ELSE PriorityLoop(ForceAboveBaseline(nw, top[i][1], non_highlighted), top, i + 1,
                      non_highlighted)

\* Lines 230-257: the priority pass over highlighted_dimensions[:max_highlights].
PriorityPass(requirements, nw) ==
    LET highlighted    == highlighted_dimensions(requirements)
        max_highlights == Min2(3, Len(highlighted))
        top            == SubSeq(highlighted, 1, max_highlights)
    IN  PriorityLoop(nw, top, 1, StandardDimensions \ Names(top))

calculate_dimension_weights(requirements) ==
    PriorityPass(requirements,
                 ScaleOverride(requirements, NormalizeRaw(BoostedWeights(requirements))))

(***************************************************************************)
(* requirements_processor.py: validation, conflicts, priority factors.     *)
(***************************************************************************)
\* _validate_requirements: the ValueError it raises, or "ok".
validate_requirements(requirements) ==
    IF requirements.team_size < 1 THEN "ValueError"
    ELSE IF requirements.team_size > 1000 THEN "ValueError"
    ELSE IF requirements.budget \notin BudgetLevel THEN "ValueError"
    ELSE IF requirements.timeline \notin TimelineLevel THEN "ValueError"
    ELSE IF requirements.scalability_needs \notin ScaleLevel THEN "ValueError"
    ELSE IF requirements.expertise_level \notin ExpertiseLevel THEN "ValueError"
    ELSE "ok"

Conflict1 == "Low budget, large scalability needs, and tight timeline create competing priorities"
Conflict2 == "Beginner expertise with tight timeline and large scale requirements may be unrealistic"
Conflict3 == "Low budget with large expert team suggests potential resource mismatch"
Conflict4 == "Small scalability needs with large team may lead to over-engineering"
Conflict5 == "High budget with tight timeline and beginner team may indicate poor planning"

\* The five checks written as one if/elif chain: only the first rule that
\* holds is reported.
AppendIfFirst(cond, seq, text) == IF cond /\ seq = <<>> THEN Append(seq, text) ELSE seq

\* conflicts.append(text) under a condition.
AppendIf(cond, seq, text) == IF cond THEN Append(seq, text) ELSE seq

detect_requirement_conflicts(requirements) ==
    LET c1 == AppendIf(/\ requirements.budget = "LOW"
                       /\ requirements.scalability_needs = "LARGE"
                       /\ requirements.timeline = "TIGHT", <<>>, Conflict1)
        c2 == AppendIf(/\ requirements.expertise_level = "BEGINNER"
                       /\ requirements.timeline = "TIGHT"
                       /\ requirements.scalability_needs = "LARGE", c1, Conflict2)
        c3 == AppendIf(/\ requirements.budget = "LOW"
                       /\ requirements.expertise_level = "EXPERT"
                       /\ requirements.team_size >= 5, c2, Conflict3)
        c4 == AppendIf(/\ requirements.scalability_needs = "SMALL"
                       /\ requirements.team_size >= 8, c3, Conflict4)
        c5 == AppendIf(/\ requirements.budget = "HIGH"
                       /\ requirements.timeline = "TIGHT"
                       /\ requirements.expertise_level = "BEGINNER", c4, Conflict5)
    IN  c5

\* Lines 404-410: remove duplicates, keeping the first occurrence.
RECURSIVE Unique(_)
Unique(seq) ==
    IF seq = <<>> THEN <<>>
    ELSE LET front == Unique(SubSeq(seq, 1, Len(seq) - 1))
             last  == seq[Len(seq)]
         IN  IF \E i \in 1..Len(front) : front[i] = last THEN front ELSE Append(front, last)

identify_priority_factors(requirements) ==
    LET budget_factors ==
            CASE requirements.budget = "LOW" ->
                    <<"Cost optimization and budget constraints",
                      "Open-source solutions preferred">>
              [] requirements.budget = "MEDIUM" -> <<"Balanced cost considerations">>
              [] OTHER -> <<>>
        timeline_factors ==
            CASE requirements.timeline = "TIGHT" ->
                    <<"Rapid development and deployment",
                      "Minimal learning curve required",
                      "Simple implementation approach">>
              [] requirements.timeline = "MODERATE" -> <<"Reasonable learning curve acceptable">>
              [] OTHER -> <<>>
        scale_factors ==
            CASE requirements.scalability_needs = "LARGE" ->
                    <<"Horizontal scalability requirements",
                      "High performance optimization",
                      "Enterprise-grade reliability">>
              [] requirements.scalability_needs = "MEDIUM" ->
                    <<"Moderate scalability needs", "Performance considerations">>
              [] OTHER -> <<>>
        team_factors ==
            IF requirements.team_size >= 5
            THEN <<"Team collaboration features", "Mature tooling ecosystem">>
            ELSE <<>>
        expertise_factors ==
            CASE requirements.expertise_level = "BEGINNER" ->
                    <<"Strong ecosystem and community support",
                      "Comprehensive documentation needed",
                      "Gentle learning curve essential">>
              [] requirements.expertise_level = "INTERMEDIATE" ->
                    <<"Good community support helpful">>
              [] OTHER ->
                    <<"Advanced customization capabilities",
                      "Cutting-edge features available">>
    IN  Unique(budget_factors \o timeline_factors \o scale_factors \o team_factors
               \o expertise_factors)

MaxOver(f, dims) == CHOOSE m \in {f[d] : d \in dims} : \A d \in dims : f[d] <= m
MinOver(f, dims) == CHOOSE m \in {f[d] : d \in dims} : \A d \in dims : f[d] >= m

\* _validate_weights: the ValueError it raises, or "ok".  weights is a function
\* from dimension names to normalized units.
validate_weights(weights) ==
    LET dims == DOMAIN weights
        total_weight == SumOver(weights, dims)
    IN  IF dims = {} THEN "empty"
        ELSE IF StandardDimensions \ dims # {} THEN "missing"
        ELSE IF \E d \in dims : ~(0 <= weights[d] /\ weights[d] <= Scale) THEN "range"
        ELSE IF ~(RawToScale(190) <= total_weight /\ total_weight <= RawToScale(210))
             THEN "sum"                                        \* 0.95 <= total <= 1.05
        ELSE IF MaxOver(weights, dims) > RawToScale(120) THEN "excessive"      \* > 0.6
        ELSE IF MinOver(weights, dims) < RawToScale(10) THEN "insufficient"    \* < 0.05
        ELSE "ok"

NoWeights == [d \in StandardDimensions |-> 0]

\* process_requirements with the weights computed and validated before the
\* conflicts are looked at.
process_requirements_weights_first(requirements, detect_conflicts) ==
    LET conflicts == IF detect_conflicts THEN detect_requirement_conflicts(requirements)
                     ELSE <<>>
        dimension_weights == calculate_dimension_weights(requirements)
        priority_factors  == identify_priority_factors(requirements)
        none == [raised |-> "none", error |-> "none", conflicts |-> <<>>,
                 dimension_weights |-> NoWeights, priority_factors |-> <<>>]
    IN  IF validate_requirements(requirements) # "ok"
        THEN [none EXCEPT !.raised = "RequirementsProcessingError",
                          !.error = "requirements"]
        ELSE IF validate_weights(dimension_weights) # "ok"
        THEN [none EXCEPT !.raised = "RequirementsProcessingError",
                          !.error = validate_weights(dimension_weights),
                          !.dimension_weights = dimension_weights,
                          !.priority_factors = priority_factors]
        ELSE IF conflicts # <<>>
        THEN [none EXCEPT !.raised = "ConflictingRequirementsError",
                          !.conflicts = conflicts]
        ELSE [none EXCEPT !.dimension_weights = dimension_weights,
                          !.priority_factors = priority_factors]

\* process_requirements.  detect_conflicts is the processor's current
\* _detect_requirement_conflicts attribute: TRUE for the method of the class,
\* FALSE for the replacement `lambda req: []` that cli.py installs.
\* The result is what the call returns or raises, with the locals it computed.
process_requirements(requirements, detect_conflicts) ==
    LET conflicts == IF detect_conflicts THEN detect_requirement_conflicts(requirements)
                     ELSE <<>>
        dimension_weights == calculate_dimension_weights(requirements)
        priority_factors  == identify_priority_factors(requirements)
        none == [raised |-> "none", error |-> "none", conflicts |-> <<>>,
                 dimension_weights |-> NoWeights, priority_factors |-> <<>>]
    IN  IF validate_requirements(requirements) # "ok"
        THEN [none EXCEPT !.raised = "RequirementsProcessingError",
                          !.error = "requirements"]
        ELSE IF conflicts # <<>>
        THEN [none EXCEPT !.raised = "ConflictingRequirementsError",
                          !.conflicts = conflicts]
        ELSE IF validate_weights(dimension_weights) # "ok"
        THEN [none EXCEPT !.raised = "RequirementsProcessingError",
                          !.error = validate_weights(dimension_weights),
                          !.dimension_weights = dimension_weights,
                          !.priority_factors = priority_factors]
        ELSE [none EXCEPT !.dimension_weights = dimension_weights,
                          !.priority_factors = priority_factors]

(***************************************************************************)
(* comparison_engine.py: calculate_compatibility.                          *)
(* A technology profile is [name, dimensions], dimensions a function from  *)
(* dimension names to scores in half points (0..10 for 0.0..5.0).  A       *)
(* WeightedCriteria is [dimension_weights, priority_factors], the weights  *)
(* a function from dimension names to units of 1/Scale.  Compatibility     *)
(* scores are in units of 1/ScoreScale, rounded down.                      *)
(***************************************************************************)
ScoreScale == 100 * 100

\* max(0, min(1, dim_score / 5.0)) in tenths: half points / 5.0 are tenths.
normalized_score(dim_score) == Max2(0, Min2(10, dim_score))

\* The dimensions the loop does not skip (weight > 0).
counted_dimensions(weighted_criteria) ==
    {d \in DOMAIN weighted_criteria.dimension_weights :
        weighted_criteria.dimension_weights[d] > 0}

\* weighted_contribution of one dimension, in units of 1/(20 * Scale):
\* normalized_score * weight, or 0.5 * weight * 0.5 for a missing dimension.
weighted_contribution(technology, dimension, weight) ==
    IF dimension \in DOMAIN technology.dimensions
    THEN 2 * normalized_score(technology.dimensions[dimension]) * weight
    ELSE 5 * weight

\* total_weight grown by the whole weight, on the technology or not.
counted_weight_in_full(technology, dimension, weight) == 2 * weight

\* What the dimension adds to total_weight, in units of 1/(2 * Scale):
\* weight, or weight * 0.5 for a missing dimension.
counted_weight(technology, dimension, weight) ==
    IF dimension \in DOMAIN technology.dimensions THEN 2 * weight ELSE weight

total_weighted_score(technology, weighted_criteria) ==
    LET counted == counted_dimensions(weighted_criteria)
    IN  SumOver([d \in counted |-> weighted_contribution(
                     technology, d, weighted_criteria.dimension_weights[d])], counted)

total_weight(technology, weighted_criteria) ==
    LET counted == counted_dimensions(weighted_criteria)
    IN  SumOver([d \in counted |-> counted_weight(
                     technology, d, weighted_criteria.dimension_weights[d])], counted)

\* total_weighted_score / total_weight, or the neutral 0.5.
final_score(technology, weighted_criteria) ==
    IF total_weight(technology, weighted_criteria) > 0
    THEN (total_weighted_score(technology, weighted_criteria) * (ScoreScale \div 10))
             \div total_weight(technology, weighted_criteria)
    ELSE ScoreScale \div 2

\* The score reported on the 0-5 scale of the dimension scores.
clamp_score_five_point_scale(score) == Max2(0, Min2(5 * ScoreScale, 5 * score))

\* max(0, min(1, final_score))
clamp_score(score) == Max2(0, Min2(ScoreScale, score))

\* CompatibilityScore(technology=..., score=..., reasoning=...): Field(ge=0, le=1).
CompatibilityScoreValid(score) == 0 <= score /\ score <= ScoreScale

calculate_compatibility(technology, weighted_criteria) ==
    LET score == clamp_score(final_score(technology, weighted_criteria))
    IN  IF DOMAIN weighted_criteria.dimension_weights = {}
        THEN [raised |-> "ComparisonError", technology |-> technology.name, score |-> 0]
        ELSE IF ~CompatibilityScoreValid(score)
        THEN [raised |-> "ComparisonError", technology |-> technology.name,
              score |-> score]
        ELSE [raised |-> "none", technology |-> technology.name, score |-> score]

(***************************************************************************)
(* recommendation_engine.py.                                               *)
(* A CompatibilityScore is [technology, score]; a RankedChoice is          *)
(* [technology, score, confidence]; an AlternativeScenario is              *)
(* [scenario, recommended_tech].  Reasoning and explanation texts are left *)
(* out: nothing reads them.                                                *)
(***************************************************************************)
\* sorted(compatibility_scores, key=lambda x: x.score, reverse=True): stable.
RECURSIVE InsertBeforeEqualScores(_, _)
InsertBeforeEqualScores(sorted, x) ==
    IF sorted = <<>> THEN <<x>>
    ELSE IF Head(sorted).score > x.score
    THEN <<Head(sorted)>> \o InsertBeforeEqualScores(Tail(sorted), x)
    ELSE <<x>> \o sorted

RECURSIVE InsertByScore(_, _)
InsertByScore(sorted, x) ==
    IF sorted = <<>> THEN <<x>>
    ELSE IF Head(sorted).score >= x.score
    THEN <<Head(sorted)>> \o InsertByScore(Tail(sorted), x)
    ELSE <<x>> \o sorted

RECURSIVE SortedByScore(_)
SortedByScore(scores) ==
    IF scores = <<>> THEN <<>>
    ELSE InsertByScore(SortedByScore(SubSeq(scores, 1, Len(scores) - 1)),
                       scores[Len(scores)])

\* tech_lookup = {tech.name: tech for tech in technologies}: the last profile
\* of a name wins.
InLookup(technologies, name) == \E i \in 1..Len(technologies) : technologies[i].name = name

tech_lookup(technologies, name) ==
    LET last == CHOOSE i \in 1..Len(technologies) :
                    /\ technologies[i].name = name
                    /\ \A j \in (i + 1)..Len(technologies) : technologies[j].name # name
    IN  technologies[last]

\* The thresholds on the absolute score: >= 0.8 HIGH, >= 0.6 MEDIUM, else LOW.
absolute_confidence(score) ==
    IF score * 10 >= 8 * ScoreScale THEN "HIGH"
    ELSE IF score * 10 >= 6 * ScoreScale THEN "MEDIUM"
    ELSE "LOW"

\* percentage_gap < percent / 100: the thresholds themselves fall in the next band.
GapBelow(score, second_score, percent) ==
    (score - second_score) * 100 < percent * second_score

\* percentage_gap <= percent / 100, for percentage_gap = (score - second) / second
\* and second > 0.
GapAtMost(score, second_score, percent) ==
    (score - second_score) * 100 <= percent * second_score

\* _calculate_confidence(comp_score, all_scores, rank), rank 0-based.
calculate_confidence(comp_score, all_scores, rank) ==
    LET score == comp_score.score
        second_score == all_scores[2].score
    IN  IF rank = 0 /\ Len(all_scores) > 1
        THEN IF second_score > 0
             THEN IF GapAtMost(score, second_score, 2) THEN "LOW"
                  ELSE IF GapAtMost(score, second_score, 5)
                  THEN (IF score * 100 >= 85 * ScoreScale THEN "MEDIUM" ELSE "LOW")
                  ELSE IF GapAtMost(score, second_score, 15)
                  THEN (IF score * 10 >= 8 * ScoreScale THEN "HIGH"
                        ELSE IF score * 10 >= 6 * ScoreScale THEN "MEDIUM"
                        ELSE "LOW")
                  ELSE (IF score * 10 >= 7 * ScoreScale THEN "HIGH"
                        ELSE IF score * 10 >= 5 * ScoreScale THEN "MEDIUM"
                        ELSE "LOW")
             ELSE absolute_confidence(score)
        ELSE absolute_confidence(score)

\* _create_ranked_choices: the KeyError of tech_lookup[...] is reported by
\* create_ranked_choices_raises.
create_ranked_choices_raises(technologies, compatibility_scores) ==
    \E i \in 1..Len(compatibility_scores) :
        ~InLookup(technologies, compatibility_scores[i].technology)

create_ranked_choices(technologies, compatibility_scores) ==
    LET sorted_scores == SortedByScore(compatibility_scores)
    IN  [i \in 1..Len(sorted_scores) |->
            [technology |-> sorted_scores[i].technology,
             score      |-> sorted_scores[i].score,
             confidence |-> calculate_confidence(sorted_scores[i], sorted_scores, i - 1)]]

\* Decision factors without the generic factor that stands in for none.
identify_decision_factors_without_fallback(compatibility_scores, weighted_criteria) ==
    LET sorted_weights == SortedDesc(Items(weighted_criteria.dimension_weights))
        top3 == SubSeq(sorted_weights, 1, Min2(3, Len(sorted_weights)))
        significant == SelectSeq(top3, LAMBDA it : it[2] * 100 > 15 * Scale)
        by_weight == [k \in 1..Len(significant) |->
                         [kind |-> "requirements", subject |-> significant[k][1]]]
        priorities == SubSeq(weighted_criteria.priority_factors, 1,
                             Min2(2, Len(weighted_criteria.priority_factors)))
        by_priority == [k \in 1..Len(priorities) |->
                           [kind |-> "priority", subject |-> priorities[k]]]
        sorted_scores == SortedByScore(compatibility_scores)
        close == IF /\ Len(sorted_scores) >= 2
                    /\ (sorted_scores[1].score - sorted_scores[2].score) * 10 < ScoreScale
                 THEN <<[kind |-> "close", subject |-> "top options"]>>
                 ELSE <<>>
    IN  by_weight \o by_priority \o close

\* _identify_decision_factors: each factor is [kind, subject].
identify_decision_factors(compatibility_scores, weighted_criteria) ==
    LET sorted_weights == SortedDesc(Items(weighted_criteria.dimension_weights))
        top3 == SubSeq(sorted_weights, 1, Min2(3, Len(sorted_weights)))
        significant == SelectSeq(top3, LAMBDA it : it[2] * 100 > 15 * Scale)
        by_weight == [k \in 1..Len(significant) |->
                         [kind |-> "requirements", subject |-> significant[k][1]]]
        priorities == SubSeq(weighted_criteria.priority_factors, 1,
                             Min2(2, Len(weighted_criteria.priority_factors)))
        by_priority == [k \in 1..Len(priorities) |->
                           [kind |-> "priority", subject |-> priorities[k]]]
        sorted_scores == SortedByScore(compatibility_scores)
        close == IF /\ Len(sorted_scores) >= 2
                    /\ (sorted_scores[1].score - sorted_scores[2].score) * 10 < ScoreScale
                 THEN <<[kind |-> "close", subject |-> "top options"]>>
                 ELSE <<>>
        decision_factors == by_weight \o by_priority \o close
    IN  IF decision_factors = <<>>
        THEN <<[kind |-> "overall", subject |-> "compatibility"]>>
        ELSE decision_factors

\* The score of the first technology given, taken for the best one.
first_score(compatibility_scores) == compatibility_scores[1].score

\* max(score.score for score in compatibility_scores)
max_score(compatibility_scores) ==
    CHOOSE m \in {compatibility_scores[k].score : k \in 1..Len(compatibility_scores)} :
        \A k \in 1..Len(compatibility_scores) : compatibility_scores[k].score <= m

\* A weight counted as high when it exceeds the 0.2 every dimension starts at.
high_weight_above_baseline(weight) == weight * 5 > Scale

\* weight > 0.3, the test of high_weight_dims.
high_weight(weight) == weight * 10 > 3 * Scale

\* _generate_caveats: each caveat is [kind, subject].
generate_caveats(technologies, compatibility_scores, weighted_criteria) ==
    LET moderate == IF max_score(compatibility_scores) * 10 < 6 * ScoreScale
                    THEN <<[kind |-> "moderate", subject |-> "all options"]>>
                    ELSE <<>>
        risky == SelectSeq(compatibility_scores, LAMBDA sc :
                     /\ tech_lookup(technologies, sc.technology).maturity = "EXPERIMENTAL"
                     /\ sc.score * 10 >= 7 * ScoreScale)
        experimental == [k \in 1..Len(risky) |->
                            [kind |-> "experimental",
                             subject |-> tech_lookup(technologies, risky[k].technology).name]]
        high_weight_dims == {d \in DOMAIN weighted_criteria.dimension_weights :
                                high_weight(weighted_criteria.dimension_weights[d])}
        tradeoffs == IF Cardinality(high_weight_dims) >= 3
                     THEN <<[kind |-> "trade-offs", subject |-> "requirements"]>>
                     ELSE <<>>
        sorted_scores == SortedByScore(compatibility_scores)
        close == IF /\ Len(sorted_scores) >= 2
                    /\ (sorted_scores[1].score - sorted_scores[2].score) * 100
                           < 5 * ScoreScale
                 THEN <<[kind |-> "close", subject |-> "top choices"]>>
                 ELSE <<>>
    IN  moderate \o experimental \o tradeoffs \o close
            \o <<[kind |-> "may change", subject |-> "requirements"]>>

ScenarioBudget      == "If budget becomes the primary constraint"
ScenarioScalability == "If scalability becomes the top priority"
ScenarioSimplicity  == "If team expertise is limited or learning curve is a concern"

\* The three loops of _generate_alternative_scenarios: over compatibility_scores
\* in the order given, keep the first technology whose value is strictly
\* better than the best so far.  "" stands for None.
RECURSIVE budget_focused_tech(_, _, _, _, _)
budget_focused_tech(technologies, compatibility_scores, i, best_cost_score, best) ==
    IF i > Len(compatibility_scores) THEN best
    ELSE LET tech == tech_lookup(technologies, compatibility_scores[i].technology)
             cost_effectiveness == 10 - tech.dimensions["cost"]      \* 5.0 - score
         IN  IF "cost" \in DOMAIN tech.dimensions /\ cost_effectiveness > best_cost_score
             THEN budget_focused_tech(technologies, compatibility_scores, i + 1,
                                      cost_effectiveness, tech.name)
             ELSE budget_focused_tech(technologies, compatibility_scores, i + 1,
                                      best_cost_score, best)

RECURSIVE scalability_focused_tech(_, _, _, _, _)
scalability_focused_tech(technologies, compatibility_scores, i, best_scale_score, best) ==
    IF i > Len(compatibility_scores) THEN best
    ELSE LET tech == tech_lookup(technologies, compatibility_scores[i].technology)
             scale_score == tech.dimensions["scalability"]
         IN  IF "scalability" \in DOMAIN tech.dimensions /\ scale_score > best_scale_score
             THEN scalability_focused_tech(technologies, compatibility_scores, i + 1,
                                           scale_score, tech.name)
             ELSE scalability_focused_tech(technologies, compatibility_scores, i + 1,
                                           best_scale_score, best)

RECURSIVE simplicity_focused_tech(_, _, _, _, _)
simplicity_focused_tech(technologies, compatibility_scores, i, best_simplicity_score, best) ==
    IF i > Len(compatibility_scores) THEN best
    ELSE LET tech == tech_lookup(technologies, compatibility_scores[i].technology)
             complexity_score == tech.dimensions["complexity"]
         IN  IF /\ "complexity" \in DOMAIN tech.dimensions
                /\ complexity_score < best_simplicity_score
             THEN simplicity_focused_tech(technologies, compatibility_scores, i + 1,
                                          complexity_score, tech.name)
             ELSE simplicity_focused_tech(technologies, compatibility_scores, i + 1,
                                          best_simplicity_score, best)

\* The technology the two later scenarios are compared with.
current_top_pick(compatibility_scores) == compatibility_scores[1].technology

\* _generate_alternative_scenarios; <<>> stands for the None it returns when
\* no scenario was added.
generate_alternative_scenarios(technologies, compatibility_scores) ==
    LET budget == budget_focused_tech(technologies, compatibility_scores, 1, 0, "")
        scalability == scalability_focused_tech(technologies, compatibility_scores, 1, 0, "")
        simplicity == simplicity_focused_tech(technologies, compatibility_scores, 1, 12, "")
        top == current_top_pick(compatibility_scores)
    IN  (IF budget # ""
         THEN <<[scenario |-> ScenarioBudget, recommended_tech |-> budget]>> ELSE <<>>)
        \o (IF scalability # "" /\ scalability # top
            THEN <<[scenario |-> ScenarioScalability, recommended_tech |-> scalability]>>
            ELSE <<>>)
        \o (IF simplicity # "" /\ simplicity # top
            THEN <<[scenario |-> ScenarioSimplicity, recommended_tech |-> simplicity]>>
            ELSE <<>>)

\* Uniqueness of the ranked choices themselves, not of their technology names.
validate_unique_choices(ranked_choices) ==
    Cardinality({ranked_choices[k] : k \in 1..Len(ranked_choices)}) = Len(ranked_choices)

\* Recommendation.validate_unique_technologies_in_ranking
validate_unique_technologies_in_ranking(ranked_choices) ==
    Cardinality({ranked_choices[k].technology : k \in 1..Len(ranked_choices)})
        = Len(ranked_choices)

\* Recommendation.validate_score_ordering: scores == sorted(scores, reverse=True)
validate_score_ordering(ranked_choices) ==
    \A k \in 1..(Len(ranked_choices) - 1) :
        ranked_choices[k].score >= ranked_choices[k + 1].score

NoRecommendation ==
    [raised |-> "none", ranked_choices |-> <<>>, key_decision_factors |-> <<>>,
     caveats |-> <<>>, alternative_scenarios |-> <<>>]

\* generate_recommendation: what it returns, or the exception it raises.
generate_recommendation(technologies, compatibility_scores, weighted_criteria) ==
    LET ranked_choices == create_ranked_choices(technologies, compatibility_scores)
    IN  IF technologies = <<>> \/ Len(compatibility_scores) # Len(technologies)
        THEN [NoRecommendation EXCEPT !.raised = "ValueError"]
        ELSE IF create_ranked_choices_raises(technologies, compatibility_scores)
        THEN [NoRecommendation EXCEPT !.raised = "KeyError"]
        ELSE IF \/ ~validate_unique_technologies_in_ranking(ranked_choices)
                \/ ~validate_score_ordering(ranked_choices)
        THEN [NoRecommendation EXCEPT !.raised = "ValidationError"]
        ELSE [raised |-> "none",
              ranked_choices |-> ranked_choices,
              key_decision_factors |->
                  identify_decision_factors(compatibility_scores, weighted_criteria),
              caveats |->
                  generate_caveats(technologies, compatibility_scores, weighted_criteria),
              alternative_scenarios |->
                  generate_alternative_scenarios(technologies, compatibility_scores)]

(***************************************************************************)
(* Text.  A str is a TLA+ string; Chars spells the names that occur, and   *)
(* lower(), strip(), `in` and split() work on the spelling.                *)
(***************************************************************************)
Chars(name) ==
    CASE name = "REST" -> <<"R", "E", "S", "T">>
      [] name = "GraphQL" -> <<"G", "r", "a", "p", "h", "Q", "L">>
      [] name = "AWS Lambda" -> <<"A", "W", "S", " ", "L", "a", "m", "b", "d", "a">>
      [] name = "EC2" -> <<"E", "C", "2">>
      [] name = "React" -> <<"R", "e", "a", "c", "t">>
      [] name = "Vue" -> <<"V", "u", "e">>
      [] name = "PostgreSQL" -> <<"P", "o", "s", "t", "g", "r", "e", "S", "Q", "L">>
      [] name = "MongoDB" -> <<"M", "o", "n", "g", "o", "D", "B">>
      [] name = "rest" -> <<"r", "e", "s", "t">>
      [] name = "REST API" -> <<"R", "E", "S", "T", " ", "A", "P", "I">>
      [] name = "Foobar123" -> <<"F", "o", "o", "b", "a", "r", "1", "2", "3">>
      [] name = "pg" -> <<"p", "g">>
      [] name = "Foobar456" -> <<"F", "o", "o", "b", "a", "r", "4", "5", "6">>
      [] name = "Foobar789" -> <<"F", "o", "o", "b", "a", "r", "7", "8", "9">>
      [] name = "Foobar000" -> <<"F", "o", "o", "b", "a", "r", "0", "0", "0">>
      [] name = "Redis" -> <<"R", "e", "d", "i", "s">>
      [] name = "Cloud DB" -> <<"C", "l", "o", "u", "d", " ", "D", "B">>
      [] name = "db" -> <<"d", "b">>
      [] name = "database" -> <<"d", "a", "t", "a", "b", "a", "s", "e">>
      [] name = "sql" -> <<"s", "q", "l">>
      [] name = "redis" -> <<"r", "e", "d", "i", "s">>
      [] name = "elastic" -> <<"e", "l", "a", "s", "t", "i", "c">>
      [] name = "api" -> <<"a", "p", "i">>
      [] name = "graphql" -> <<"g", "r", "a", "p", "h", "q", "l">>
      [] name = "grpc" -> <<"g", "r", "p", "c">>
      [] name = "azure" -> <<"a", "z", "u", "r", "e">>
      [] name = "gcp" -> <<"g", "c", "p">>
      [] name = "cloud" -> <<"c", "l", "o", "u", "d">>
      [] name = "lambda" -> <<"l", "a", "m", "b", "d", "a">>
      [] name = "function" -> <<"f", "u", "n", "c", "t", "i", "o", "n">>
      [] name = "react" -> <<"r", "e", "a", "c", "t">>
      [] name = "vue" -> <<"v", "u", "e">>
      [] name = "angular" -> <<"a", "n", "g", "u", "l", "a", "r">>
      [] name = "svelte" -> <<"s", "v", "e", "l", "t", "e">>
      [] name = "frontend" -> <<"f", "r", "o", "n", "t", "e", "n", "d">>
      [] name = "ui" -> <<"u", "i">>
      [] name = "express" -> <<"e", "x", "p", "r", "e", "s", "s">>
      [] name = "django" -> <<"d", "j", "a", "n", "g", "o">>
      [] name = "flask" -> <<"f", "l", "a", "s", "k">>
      [] name = "spring" -> <<"s", "p", "r", "i", "n", "g">>
      [] name = "fastapi" -> <<"f", "a", "s", "t", "a", "p", "i">>
      [] name = "" -> <<>>
      [] name = "security" -> <<"s", "e", "c", "u", "r", "i", "t", "y">>
      [] name = "Cost" -> <<"C", "o", "s", "t">>
      [] name = " cost" -> <<" ", "c", "o", "s", "t">>
      [] name = " " -> <<" ">>
      [] name = "Security" -> <<"S", "e", "c", "u", "r", "i", "t", "y">>
      [] name = "latency" -> <<"l", "a", "t", "e", "n", "c", "y">>
      [] name = "licensing" -> <<"l", "i", "c", "e", "n", "s", "i", "n", "g">>
      [] name = "support" -> <<"s", "u", "p", "p", "o", "r", "t">>
      [] name = "tooling" -> <<"t", "o", "o", "l", "i", "n", "g">>
      [] name = "testing" -> <<"t", "e", "s", "t", "i", "n", "g">>
      [] name = "cost" -> <<"c", "o", "s", "t">>
      [] name = "scalability" -> <<"s", "c", "a", "l", "a", "b", "i", "l", "i", "t", "y">>
      [] name = "complexity" -> <<"c", "o", "m", "p", "l", "e", "x", "i", "t", "y">>
      [] name = "ecosystem" -> <<"e", "c", "o", "s", "y", "s", "t", "e", "m">>
      [] name = "performance" -> <<"p", "e", "r", "f", "o", "r", "m", "a", "n", "c", "e">>
      [] name = "js" -> <<"j", "s">>
      [] name = "ts" -> <<"t", "s">>
      [] name = "py" -> <<"p", "y">>
      [] name = "mongo" -> <<"m", "o", "n", "g", "o">>
      [] name = "k8s" -> <<"k", "8", "s">>
      [] name = "aws" -> <<"a", "w", "s">>
      [] name = "javascript" -> <<"j", "a", "v", "a", "s", "c", "r", "i", "p", "t">>
      [] name = "typescript" -> <<"t", "y", "p", "e", "s", "c", "r", "i", "p", "t">>
      [] name = "python" -> <<"p", "y", "t", "h", "o", "n">>
      [] name = "postgresql" -> <<"p", "o", "s", "t", "g", "r", "e", "s", "q", "l">>
      [] name = "mongodb" -> <<"m", "o", "n", "g", "o", "d", "b">>
      [] name = "kubernetes" -> <<"k", "u", "b", "e", "r", "n", "e", "t", "e", "s">>
      [] name = "amazon web services" -> <<"a", "m", "a", "z", "o", "n", " ", "w", "e", "b", " ", "s", "e", "r", "v", "i", "c", "e", "s">>

Uppercase == <<"A", "B", "C", "D", "E", "F", "G", "H", "I", "J", "K", "L", "M",
               "N", "O", "P", "Q", "R", "S", "T", "U", "V", "W", "X", "Y", "Z">>
Lowercase == <<"a", "b", "c", "d", "e", "f", "g", "h", "i", "j", "k", "l", "m",
               "n", "o", "p", "q", "r", "s", "t", "u", "v", "w", "x", "y", "z">>

\* str.lower()
LowerChar(c) ==
    IF \E k \in 1..Len(Uppercase) : Uppercase[k] = c
    THEN Lowercase[CHOOSE k \in 1..Len(Uppercase) : Uppercase[k] = c]
    ELSE c

Lower(chars) == [k \in 1..Len(chars) |-> LowerChar(chars[k])]

\* str.strip()
RECURSIVE LStrip(_)
LStrip(chars) ==
    IF chars # <<>> /\ Head(chars) = " " THEN LStrip(Tail(chars)) ELSE chars

RECURSIVE RStrip(_)
RStrip(chars) ==
    IF chars # <<>> /\ chars[Len(chars)] = " "
    THEN RStrip(SubSeq(chars, 1, Len(chars) - 1))
    ELSE chars

Strip(chars) == RStrip(LStrip(chars))

\* needle in hay
Contains(hay, needle) ==
    \E off \in 0..(Len(hay) - Len(needle)) :
        SubSeq(hay, off + 1, off + Len(needle)) = needle

\* ''.join(word[0] for word in chars.split()): the first letter of each word.
first_letters(chars) ==
    LET picked == SelectSeq([k \in 1..Len(chars) |-> k], LAMBDA k :
                      chars[k] # " " /\ (k = 1 \/ chars[k - 1] = " "))
    IN  [k \in 1..Len(picked) |-> chars[picked[k]]]

\* len(chars.split())
word_count(chars) ==
    Cardinality({k \in 1..Len(chars) : chars[k] # " " /\ (k = 1 \/ chars[k - 1] = " ")})

(***************************************************************************)
(* analyzer.py: the knowledge base and the lookup of a technology name.    *)
(* A TechnologyProfile is [name, category, dimensions, maturity].          *)
(***************************************************************************)
Profile(name, category, cost, scalability, complexity, ecosystem, performance, maturity) ==
    [name |-> name,
     category |-> category,
     dimensions |-> [d \in StandardDimensions |->
                        CASE d = "cost" -> cost
                          [] d = "scalability" -> scalability
                          [] d = "complexity" -> complexity
                          [] d = "ecosystem" -> ecosystem
                          [] d = "performance" -> performance],
     maturity |-> maturity]

\* Knowledge-base entries, scores in half points.
REST       == Profile("REST", "API", 9, 8, 9, 10, 7, "MATURE")
GraphQL    == Profile("GraphQL", "API", 6, 9, 5, 8, 9, "STABLE")
PostgreSQL == Profile("PostgreSQL", "Database", 10, 8, 6, 9, 9, "MATURE")
MongoDB    == Profile("MongoDB", "Database", 7, 10, 8, 8, 8, "MATURE")
AWSLambda  == Profile("AWS Lambda", "Cloud Service", 8, 10, 6, 9, 7, "MATURE")
EC2        == Profile("EC2", "Cloud Service", 6, 8, 5, 9, 9, "MATURE")
React      == Profile("React", "Frontend Framework", 9, 8, 7, 10, 8, "MATURE")
Vue        == Profile("Vue", "Frontend Framework", 9, 8, 9, 7, 9, "STABLE")

\* _build_knowledge_base: the entries in insertion order.
knowledge_base == <<REST, GraphQL, AWSLambda, EC2, React, Vue, PostgreSQL, MongoDB>>

\* _create_fallback_profile(technology_name): 3.0 on every dimension.
\* any(keyword in name_lower for keyword in keywords)
AnyKeywordIn(name_lower, keywords) ==
    \E k \in 1..Len(keywords) : Contains(name_lower, Chars(keywords[k]))

\* _guess_technology_category(technology_name) with its default replaced.
guess_technology_category_defaulting_unknown(technology_name) ==
    LET name_lower == Lower(Chars(technology_name))
    IN  IF AnyKeywordIn(name_lower, <<"db", "database", "sql", "mongo", "redis", "elastic">>)
        THEN "Database"
        ELSE IF AnyKeywordIn(name_lower, <<"api", "rest", "graphql", "grpc">>)
        THEN "API"
        ELSE IF AnyKeywordIn(name_lower, <<"aws", "azure", "gcp", "cloud", "lambda", "function">>)
        THEN "Cloud Service"
        ELSE IF AnyKeywordIn(name_lower, <<"react", "vue", "angular", "svelte", "frontend", "ui">>)
        THEN "Frontend Framework"
        ELSE IF AnyKeywordIn(name_lower, <<"express", "django", "flask", "spring", "fastapi">>)
        THEN "Backend Framework"
        ELSE "Unknown"

\* _guess_technology_category(technology_name): the first keyword list with
\* a keyword inside the lowercased name decides.
guess_technology_category(technology_name) ==
    LET name_lower == Lower(Chars(technology_name))
    IN  IF AnyKeywordIn(name_lower, <<"db", "database", "sql", "mongo", "redis", "elastic">>)
        THEN "Database"
        ELSE IF AnyKeywordIn(name_lower, <<"api", "rest", "graphql", "grpc">>)
        THEN "API"
        ELSE IF AnyKeywordIn(name_lower, <<"aws", "azure", "gcp", "cloud", "lambda", "function">>)
        THEN "Cloud Service"
        ELSE IF AnyKeywordIn(name_lower, <<"react", "vue", "angular", "svelte", "frontend", "ui">>)
        THEN "Frontend Framework"
        ELSE IF AnyKeywordIn(name_lower, <<"express", "django", "flask", "spring", "fastapi">>)
        THEN "Backend Framework"
        ELSE "Technology"

create_fallback_profile(technology_name) ==
    Profile(technology_name, guess_technology_category(technology_name),
            6, 6, 6, 6, 6, "STABLE")

\* None, for a lookup that finds nothing.
NoProfile == [name |-> "", category |-> "", dimensions |-> <<>>, maturity |-> ""]

abbreviation_map ==
    <<<<"js", "javascript">>, <<"ts", "typescript">>, <<"py", "python">>,
      <<"pg", "postgresql">>, <<"mongo", "mongodb">>, <<"k8s", "kubernetes">>,
      <<"aws", "amazon web services">>>>

\* _is_abbreviation_match(abbrev, full_name), both spelled out.
is_abbreviation_match(abbrev, full_name) ==
    IF Len(abbrev) < 2 THEN FALSE
    ELSE IF word_count(Lower(full_name)) >= 2 /\ abbrev = first_letters(Lower(full_name))
    THEN TRUE
    ELSE \E k \in 1..Len(abbreviation_map) :
             /\ abbrev = Chars(abbreviation_map[k][1])
             /\ Contains(Lower(full_name), Chars(abbreviation_map[k][2]))

\* The loops of get_technology_profile: the first knowledge-base entry that
\* matches, 0 for none.
FirstEntry(matching) ==
    IF matching = {} THEN 0
    ELSE CHOOSE k \in matching : \A j \in matching : k <= j

get_technology_profile(technology_name) ==
    LET name == Chars(technology_name)
        normalized_input == Strip(Lower(name))
        entries == 1..Len(knowledge_base)
        exact == FirstEntry({k \in entries : knowledge_base[k].name = technology_name})
        insensitive == FirstEntry({k \in entries :
                           Lower(Chars(knowledge_base[k].name)) = Lower(name)})
        partial == FirstEntry({k \in entries :
                       LET known_lower == Lower(Chars(knowledge_base[k].name))
                       IN  \/ Contains(known_lower, normalized_input)
                           \/ Contains(normalized_input, known_lower)
                           \/ is_abbreviation_match(normalized_input, known_lower)})
    IN  IF Strip(name) = <<>> THEN NoProfile
        ELSE IF exact # 0 THEN knowledge_base[exact]
        ELSE IF insensitive # 0 THEN knowledge_base[insensitive]
        ELSE IF partial # 0 THEN knowledge_base[partial]
        ELSE NoProfile

\* get_technology_profile_with_fallback: the profile, or NoProfile where it
\* raises TechnologyNotFoundError (TechnologyProfile rejects an empty name).
get_technology_profile_with_fallback(technology_name) ==
    LET profile == get_technology_profile(technology_name)
    IN  IF profile # NoProfile THEN profile
        ELSE IF Len(Chars(technology_name)) >= 1
        THEN create_fallback_profile(technology_name)
        ELSE NoProfile

(***************************************************************************)
(* input_parser.py: the validation of parsed arguments.  args is           *)
(* [technologies, team_size, budget, timeline, scalability, expertise,     *)
(* custom_dimensions, no_matrix, no_recommendation, max_technologies];     *)
(* custom_dimensions <<>> stands for an option not given.                  *)
(***************************************************************************)
\* set(x.lower().strip() for x in names)
NormalizedNames(names) == {Strip(Lower(Chars(names[k]))) : k \in 1..Len(names)}

validate_technology_count(technologies) ==
    /\ Len(technologies) >= 2
    /\ Len(technologies) <= 5
    /\ Cardinality(NormalizedNames(technologies)) = Len(technologies)

validate_team_size(team_size) == team_size >= 1 /\ team_size <= 1000

\* A check that compares the names as given with the standard names.
validate_custom_dimensions_case_sensitive(custom_dimensions) ==
    /\ \A k \in 1..Len(custom_dimensions) :
           \A d \in StandardDimensions : Chars(custom_dimensions[k]) # Chars(d)
    /\ Cardinality(NormalizedNames(custom_dimensions)) = Len(custom_dimensions)
    /\ \A k \in 1..Len(custom_dimensions) : Strip(Chars(custom_dimensions[k])) # <<>>

validate_custom_dimensions(custom_dimensions) ==
    /\ \A k \in 1..Len(custom_dimensions) :
           \A d \in StandardDimensions :
               Strip(Lower(Chars(custom_dimensions[k]))) # Chars(d)
    /\ Cardinality(NormalizedNames(custom_dimensions)) = Len(custom_dimensions)
    /\ \A k \in 1..Len(custom_dimensions) : Strip(Chars(custom_dimensions[k])) # <<>>

validate_max_technologies(max_technologies) ==
    max_technologies >= 2 /\ max_technologies <= 5

\* ComparisonRequest: 2-5 technologies, unique as given; custom dimensions
\* that are not standard names as given.
ComparisonRequestValid(technologies, custom_dimensions) ==
    /\ Len(technologies) >= 2
    /\ Len(technologies) <= 5
    /\ Cardinality({technologies[k] : k \in 1..Len(technologies)}) = Len(technologies)
    /\ \A k \in 1..Len(custom_dimensions) : custom_dimensions[k] \notin StandardDimensions

NoRequest ==
    [technologies |-> <<>>,
     project_requirements |->
         [team_size |-> 1, budget |-> "MEDIUM", timeline |-> "MODERATE",
          scalability_needs |-> "MEDIUM", expertise_level |-> "INTERMEDIATE"],
     custom_dimensions |-> <<>>,
     include_matrix |-> TRUE, include_recommendation |-> TRUE, max_technologies |-> 5]

\* parse_args / _convert_to_comparison_request: the ComparisonRequest, or
\* InputValidationError.
parse_args(args) ==
    IF /\ validate_technology_count(args.technologies)
       /\ validate_team_size(args.team_size)
       /\ (args.custom_dimensions # <<>> => validate_custom_dimensions(args.custom_dimensions))
       /\ validate_max_technologies(args.max_technologies)
       /\ ComparisonRequestValid(args.technologies, args.custom_dimensions)
    THEN [raised |-> "none",
          request |->
              [technologies |-> args.technologies,
               project_requirements |->
                   [team_size |-> args.team_size, budget |-> args.budget,
                    timeline |-> args.timeline, scalability_needs |-> args.scalability,
                    expertise_level |-> args.expertise],
               custom_dimensions |-> args.custom_dimensions,
               include_matrix |-> ~args.no_matrix,
               include_recommendation |-> ~args.no_recommendation,
               max_technologies |-> args.max_technologies]]
    ELSE [raised |-> "InputValidationError", request |-> NoRequest]

(***************************************************************************)
(* comparison_engine.py: generate_comparison and the trade-off matrix.     *)
(***************************************************************************)
standard_dimensions == <<"cost", "scalability", "complexity", "ecosystem", "performance">>

\* _get_comparison_dimensions; a custom dimension with a standard name raises.
get_comparison_dimensions_raises(custom_dimensions) ==
    \E k \in 1..Len(custom_dimensions) : custom_dimensions[k] \in StandardDimensions

get_comparison_dimensions(custom_dimensions) == standard_dimensions \o custom_dimensions

\* _validate_matrix_inputs
validate_matrix_inputs(technologies, dimensions) ==
    technologies # <<>> /\ dimensions # <<>> /\ Len(dimensions) <= 10

\* TradeoffMatrix(technologies=..., dimensions=...): min_items 2 and 1.
TradeoffMatrixValid(technologies, dimensions) ==
    Len(technologies) >= 2 /\ Len(dimensions) >= 1

\* tech.dimensions[dimension].explanation: the text the profile holds for
\* the dimension, named by the profile and the dimension.
dimension_explanation(tech, dimension) ==
    [text |-> "explanation of the profile", technology |-> tech.name,
     dimension |-> dimension]

\* The cell of the matrix with the 2.5 of the error branch for a dimension
\* the profile lacks.
matrix_score_below_neutral(tech, dimension) ==
    IF dimension \in DOMAIN tech.dimensions THEN tech.dimensions[dimension] ELSE 5

\* The cell of the matrix, in half points: the profile's score, or the
\* neutral 3.0.
matrix_score(tech, dimension) ==
    IF dimension \in DOMAIN tech.dimensions THEN tech.dimensions[dimension] ELSE 6

\* The explanation of the cell: the profile's, or the no-data text.
matrix_explanation(tech, dimension) ==
    IF dimension \in DOMAIN tech.dimensions THEN dimension_explanation(tech, dimension)
    ELSE [text |-> "No specific data available for", technology |-> "",
          dimension |-> dimension]

\* Highlights that measure the lead against the next lower score, so that
\* technologies tied at the top still produce a highlight.
identify_highlights_ignoring_ties(technologies, dimensions, scores) ==
    LET techs == 1..Len(technologies)
        leads(d) ==
            LET max_tech_idx == CHOOSE t \in techs :
                    /\ \A u \in techs : scores[u][d] <= scores[t][d]
                    /\ \A u \in 1..(t - 1) : scores[u][d] < scores[t][d]
                lower == {u \in techs : scores[u][d] < scores[max_tech_idx][d]}
            IN  [dimension |-> dimensions[d],
                 leader |-> technologies[max_tech_idx].name,
                 gap |-> IF lower # {}
                         THEN scores[max_tech_idx][d]
                              - MaxOver([u \in techs |-> scores[u][d]], lower)
                         ELSE -1]
        all == [d \in 1..Len(dimensions) |-> leads(d)]
        kept == SelectSeq(all, LAMBDA h : h.gap >= 1)
    IN  [k \in 1..Len(kept) |-> [dimension |-> kept[k].dimension, leader |-> kept[k].leader]]

\* _identify_highlights: per dimension the first technology with the maximum
\* score, when it leads the next best score by at least 0.5.
identify_highlights(technologies, dimensions, scores) ==
    LET leads(d) ==
            LET max_tech_idx == CHOOSE t \in 1..Len(technologies) :
                    /\ \A u \in 1..Len(technologies) : scores[u][d] <= scores[t][d]
                    /\ \A u \in 1..(t - 1) : scores[u][d] < scores[t][d]
            IN  [dimension |-> dimensions[d],
                 leader |-> technologies[max_tech_idx].name,
                 gap |-> IF Len(technologies) > 1
                         THEN scores[max_tech_idx][d]
                              - MaxOver([u \in 1..Len(technologies) |-> scores[u][d]],
                                        (1..Len(technologies)) \ {max_tech_idx})
                         ELSE -1]
        all == [d \in 1..Len(dimensions) |-> leads(d)]
        kept == SelectSeq(all, LAMBDA h : h.gap >= 1)
    IN  [k \in 1..Len(kept) |-> [dimension |-> kept[k].dimension, leader |-> kept[k].leader]]

NoMatrix ==
    [technologies |-> <<>>, dimensions |-> <<>>, scores |-> <<>>, explanations |-> <<>>,
     highlights |-> <<>>]

\* create_tradeoff_matrix raises ComparisonError: _validate_matrix_inputs or
\* the TradeoffMatrix constructor rejects the arguments.
create_tradeoff_matrix_raises(technologies, dimensions) ==
    ~validate_matrix_inputs(technologies, dimensions)
        \/ ~TradeoffMatrixValid(technologies, dimensions)

\* create_tradeoff_matrix, where it does not raise.
create_tradeoff_matrix(technologies, dimensions) ==
    LET scores == [t \in 1..Len(technologies) |->
                      [d \in 1..Len(dimensions) |->
                          matrix_score(technologies[t], dimensions[d])]]
        explanations == [t \in 1..Len(technologies) |->
                            [d \in 1..Len(dimensions) |->
                                matrix_explanation(technologies[t], dimensions[d])]]
    IN  [technologies |-> [t \in 1..Len(technologies) |-> technologies[t].name],
         dimensions |-> dimensions,
         scores |-> scores,
         explanations |-> explanations,
         highlights |-> identify_highlights(technologies, dimensions, scores)]

\* Input checks without the upper limit of five technologies.
validate_comparison_inputs_without_maximum(technologies, weighted_criteria) ==
    LET insufficient_data_count ==
            Cardinality({t \in 1..Len(technologies) :
                            Cardinality(DOMAIN technologies[t].dimensions) < 3})
    IN  IF Len(technologies) < 2 THEN "ValueError"
        ELSE IF DOMAIN weighted_criteria.dimension_weights = {} THEN "InsufficientDataError"
        ELSE IF 2 * insufficient_data_count > Len(technologies) THEN "InsufficientDataError"
        ELSE "ok"

\* _validate_comparison_inputs: "ok", or the exception it raises.
validate_comparison_inputs(technologies, weighted_criteria) ==
    LET insufficient_data_count ==
            Cardinality({t \in 1..Len(technologies) :
                            Cardinality(DOMAIN technologies[t].dimensions) < 3})
    IN  IF Len(technologies) < 2 \/ Len(technologies) > 5 THEN "ValueError"
        ELSE IF DOMAIN weighted_criteria.dimension_weights = {} THEN "InsufficientDataError"
        ELSE IF 2 * insufficient_data_count > Len(technologies) THEN "InsufficientDataError"
        ELSE "ok"

\* A fallback that scores the failed technology 0.
create_fallback_zero_score(tech) ==
    [technology |-> tech.name, score |-> 0]

\* _create_fallback_compatibility_score: the neutral 0.5.
create_fallback_compatibility_score(tech) ==
    [technology |-> tech.name, score |-> ScoreScale \div 2]

\* The score of one technology in generate_comparison: the fallback score
\* replaces a calculation that raises.  calculation_raises is TRUE where
\* calculate_compatibility has been replaced by one that raises for tech.
compatibility_score_or_fallback(tech, weighted_criteria, calculation_raises) ==
    IF calculation_raises \/ calculate_compatibility(tech, weighted_criteria).raised # "none"
    THEN create_fallback_compatibility_score(tech)
    ELSE [technology |-> calculate_compatibility(tech, weighted_criteria).technology,
          score |-> calculate_compatibility(tech, weighted_criteria).score]

NoComparison ==
    [raised |-> "none", technologies |-> <<>>, tradeoff_matrix |-> NoMatrix,
     compatibility_scores |-> <<>>]

\* generate_comparison: the result dict, or the exception it raises, on an
\* engine whose calculate_compatibility raises for the technologies named in
\* failing.
generate_comparison_patched(technologies, weighted_criteria, custom_dimensions, failing) ==
    LET dimensions == get_comparison_dimensions(custom_dimensions)
    IN  IF validate_comparison_inputs(technologies, weighted_criteria) # "ok"
        THEN [NoComparison EXCEPT
                 !.raised = validate_comparison_inputs(technologies, weighted_criteria)]
        ELSE IF \/ get_comparison_dimensions_raises(custom_dimensions)
                \/ create_tradeoff_matrix_raises(technologies, dimensions)
        THEN [NoComparison EXCEPT !.raised = "ComparisonError"]
        ELSE [raised |-> "none",
              technologies |-> [t \in 1..Len(technologies) |-> technologies[t].name],
              tradeoff_matrix |-> create_tradeoff_matrix(technologies, dimensions),
              compatibility_scores |->
                  [t \in 1..Len(technologies) |->
                      compatibility_score_or_fallback(technologies[t], weighted_criteria,
                                                      technologies[t].name \in failing)]]

\* generate_comparison on the engine as constructed.
generate_comparison(technologies, weighted_criteria, custom_dimensions) ==
    generate_comparison_patched(technologies, weighted_criteria, custom_dimensions, {})

(***************************************************************************)
(* State.                                                                  *)
(*   requirements, rp_call, rp_result: one call on a RequirementsProcessor *)
(*   (its argument, the method called, what the call produced).            *)
(*   technology, weighted_criteria, ce_call, ce_result: one call on a      *)
(*   ComparisonEngine; ce_technologies and custom_dimensions are the other *)
(*   arguments of generate_comparison and create_tradeoff_matrix, and      *)
(*   calculation_fails names the technologies for which the engine's       *)
(*   calculate_compatibility has been replaced by one that raises.         *)
(*   technologies, compatibility_scores, re_criteria, re_call, re_result:  *)
(*   one call on a RecommendationEngine.                                   *)
(*   The rest is one RefereeApplication.run(args): pc is the position in   *)
(*   run, detect_original whether the processor's                          *)
(*   _detect_requirement_conflicts is still the method of the class,       *)
(*   warnings the conflicts printed, exit_code the value returned (-1      *)
(*   before run returns), and the others the locals of run.                *)
(***************************************************************************)
VARIABLES requirements, rp_call, rp_result,
          technology, weighted_criteria, ce_call, ce_result,
          ce_technologies, custom_dimensions, calculation_fails,
          technologies, compatibility_scores, re_criteria, re_call, re_result,
          args, pc, detect_original, warnings, comparison_request, run_criteria,
          technology_profiles, unknown_technologies, fallback_technologies,
          comparison_result, recommendation, exit_code

rpVars == <<requirements, rp_call, rp_result>>
ceVars == <<technology, weighted_criteria, ce_call, ce_result,
            ce_technologies, custom_dimensions, calculation_fails>>
reVars == <<technologies, compatibility_scores, re_criteria, re_call, re_result>>
appVars == <<args, pc, detect_original, warnings, comparison_request, run_criteria,
             technology_profiles, unknown_technologies, fallback_technologies,
             comparison_result, recommendation, exit_code>>
vars   == <<rpVars, ceVars, reVars, appVars>>

NoResult == [raised |-> "none", error |-> "none", conflicts |-> <<>>,
             dimension_weights |-> NoWeights, priority_factors |-> <<>>]

NoTechnology == [name |-> "", dimensions |-> <<>>]
NoCriteria   == [dimension_weights |-> <<>>, priority_factors |-> <<>>]
NoScore      == [raised |-> "none", technology |-> "", score |-> 0]

\* No RequirementsProcessor call is under way.
RpIdle ==
    /\ requirements = [team_size |-> 1, budget |-> "MEDIUM", timeline |-> "MODERATE",
                       scalability_needs |-> "MEDIUM", expertise_level |-> "INTERMEDIATE"]
    /\ rp_call = "idle"
    /\ rp_result = NoResult

\* No ComparisonEngine call is under way.
CeIdle ==
    /\ technology = NoTechnology
    /\ weighted_criteria = NoCriteria
    /\ ce_call = "idle"
    /\ ce_result = NoScore
    /\ ce_technologies = <<>>
    /\ custom_dimensions = <<>>
    /\ calculation_fails = {}

\* No RecommendationEngine call is under way.
ReIdle ==
    /\ technologies = <<>>
    /\ compatibility_scores = <<>>
    /\ re_criteria = NoCriteria
    /\ re_call = "idle"
    /\ re_result = NoRecommendation

\* The locals of run before run assigns them.
RunLocalsUnset ==
    /\ warnings = <<>>
    /\ comparison_request = NoRequest
    /\ run_criteria = NoCriteria
    /\ technology_profiles = <<>>
    /\ unknown_technologies = <<>>
    /\ fallback_technologies = <<>>
    /\ comparison_result = NoComparison
    /\ recommendation = NoRecommendation
    /\ exit_code = -1

\* A RefereeApplication has been constructed and run is not called.
AppIdle ==
    /\ args = <<>>
    /\ pc = "idle"
    /\ detect_original = TRUE
    /\ RunLocalsUnset

(***************************************************************************)
(* SpecRequirements: a RequirementsProcessor is constructed and one of its *)
(* methods is called on a valid ProjectRequirements value.                 *)
(***************************************************************************)
InitRequirements ==
    /\ requirements \in ProjectRequirements
    /\ rp_call = "idle"
    /\ rp_result = NoResult
    /\ CeIdle
    /\ ReIdle
    /\ AppIdle

\* processor.process_requirements(requirements)
CallProcessRequirements ==
    /\ rp_call = "idle"
    /\ rp_call' = "process_requirements"
    /\ rp_result' = process_requirements(requirements, TRUE)
    /\ UNCHANGED <<requirements, ceVars, reVars, appVars>>

\* processor._calculate_dimension_weights(requirements)
CallCalculateDimensionWeights ==
    /\ rp_call = "idle"
    /\ rp_call' = "calculate_dimension_weights"
    /\ rp_result' = [NoResult EXCEPT
                        !.dimension_weights = calculate_dimension_weights(requirements)]
    /\ UNCHANGED <<requirements, ceVars, reVars, appVars>>

\* processor._detect_requirement_conflicts(requirements)
CallDetectRequirementConflicts ==
    /\ rp_call = "idle"
    /\ rp_call' = "detect_requirement_conflicts"
    /\ rp_result' = [NoResult EXCEPT
                        !.conflicts = detect_requirement_conflicts(requirements)]
    /\ UNCHANGED <<requirements, ceVars, reVars, appVars>>

NextRequirements ==
    \/ CallProcessRequirements
    \/ CallCalculateDimensionWeights
    \/ CallDetectRequirementConflicts

SpecRequirements == InitRequirements /\ [][NextRequirements]_vars

(***************************************************************************)
(* SpecCompatibility: calculate_compatibility is called on a technology    *)
(* profile and a WeightedCriteria with non-empty weights.  A profile has   *)
(* the five standard dimensions (models.py requires them) and may have a   *)
(* custom one; the criteria weigh standard and custom dimensions, each     *)
(* weight in [0, 1].                                                       *)
(***************************************************************************)
CompatScoreValues  == {0, 7, 10}                       \* 0.0, 3.5, 5.0
CompatWeightValues == {0, Scale \div 20, Scale \div 2}  \* 0, 0.05, 0.5
CompatKeySets ==
    {StandardDimensions, {"cost", "scalability", "security"},
     {"security", "maintainability"}, {"cost"}, {"maintainability"}}

CompatTechnologies ==
    {[name |-> "T", dimensions |-> dims] :
        dims \in [StandardDimensions -> CompatScoreValues]
                 \cup {[d \in StandardDimensions \cup {"security"} |->
                           IF d = "security" THEN 4 ELSE std[d]] :
                       std \in [StandardDimensions -> CompatScoreValues]}}

CompatCriteria ==
    {[dimension_weights |-> w, priority_factors |-> <<>>] :
        w \in UNION {[keys -> CompatWeightValues] : keys \in CompatKeySets}}

InitCompatibility ==
    /\ RpIdle
    /\ ReIdle
    /\ AppIdle
    /\ technology \in CompatTechnologies
    /\ weighted_criteria \in CompatCriteria
    /\ ce_call = "idle"
    /\ ce_result = NoScore
    /\ ce_technologies = <<>>
    /\ custom_dimensions = <<>>
    /\ calculation_fails = {}

\* engine.calculate_compatibility(technology, weighted_criteria)
CallCalculateCompatibility ==
    /\ ce_call = "idle"
    /\ ce_call' = "calculate_compatibility"
    /\ ce_result' = calculate_compatibility(technology, weighted_criteria)
    /\ UNCHANGED <<technology, weighted_criteria, ce_technologies, custom_dimensions,
                   calculation_fails, rpVars, reVars, appVars>>

NextCompatibility == CallCalculateCompatibility

SpecCompatibility == InitCompatibility /\ [][NextCompatibility]_vars

(***************************************************************************)
(* C3.  For any technology and any WeightedCriteria with non-empty         *)
(* weights, calculate_compatibility returns a score in [0, 1], also when   *)
(* the technology lacks some or all of the weighted dimensions.            *)
(***************************************************************************)
C3_CompatibilityScoreInUnitRange ==
    ce_call = "calculate_compatibility" =>
        /\ ce_result.raised = "none"
        /\ 0 <= ce_result.score
        /\ ce_result.score <= ScoreScale

\* A score is returned for a technology that has none of the weighted
\* dimensions: the neutral 0.5.
C3_ScoredWithoutAnyWeightedDimension ==
    /\ ce_call = "calculate_compatibility"
    /\ ce_result.raised = "none"
    /\ DOMAIN weighted_criteria.dimension_weights \cap DOMAIN technology.dimensions = {}
    /\ \E d \in DOMAIN weighted_criteria.dimension_weights :
           weighted_criteria.dimension_weights[d] > 0
    /\ ce_result.score = ScoreScale \div 2

(***************************************************************************)
(* C21.  The compatibility score is the weighted average over the          *)
(* dimensions of positive weight: a dimension the technology has adds      *)
(* weight * score / 5 to the total and its weight to the weight sum, a     *)
(* dimension it lacks adds 0.5 * weight / 2 to the total and weight / 2 to *)
(* the weight sum; the score is total / weight sum, or 0.5 when the weight *)
(* sum is zero.  The total below is in units of 1/(20 * Scale), the weight *)
(* sum in units of 1/(2 * Scale).                                          *)
(***************************************************************************)
PositiveOnTechnology ==
    {d \in DOMAIN weighted_criteria.dimension_weights :
        weighted_criteria.dimension_weights[d] > 0 /\ d \in DOMAIN technology.dimensions}

PositiveMissing ==
    {d \in DOMAIN weighted_criteria.dimension_weights :
        weighted_criteria.dimension_weights[d] > 0 /\ d \notin DOMAIN technology.dimensions}

AverageTotal ==
    LET w == weighted_criteria.dimension_weights
    IN  SumOver([d \in PositiveOnTechnology |-> 2 * w[d] * technology.dimensions[d]],
                PositiveOnTechnology)
        + SumOver([d \in PositiveMissing |-> 5 * w[d]], PositiveMissing)

AverageWeightSum ==
    LET w == weighted_criteria.dimension_weights
    IN  SumOver([d \in PositiveOnTechnology |-> 2 * w[d]], PositiveOnTechnology)
        + SumOver([d \in PositiveMissing |-> w[d]], PositiveMissing)

C21_ScoreIsWeightedAverage ==
    ce_call = "calculate_compatibility" =>
        /\ ce_result.raised = "none"
        /\ IF AverageWeightSum = 0
           THEN ce_result.score = ScoreScale \div 2
           ELSE /\ ce_result.score * AverageWeightSum <= AverageTotal * (ScoreScale \div 10)
                /\ AverageTotal * (ScoreScale \div 10)
                       < (ce_result.score + 1) * AverageWeightSum

\* Equal weights on a dimension scored 5.0 and on a missing one:
\* (0.5 + 0.125) / (0.5 + 0.25), five sixths.
C21_MissingDimensionAveragedIn ==
    /\ ce_call = "calculate_compatibility"
    /\ PositiveOnTechnology = {"cost"}
    /\ PositiveMissing = {"security"}
    /\ technology.dimensions["cost"] = 10
    /\ weighted_criteria.dimension_weights["cost"] = Scale \div 2
    /\ weighted_criteria.dimension_weights["security"] = Scale \div 2
    /\ ce_result.score = (5 * ScoreScale) \div 6

(***************************************************************************)
(* SpecRecommendation: a RecommendationEngine method is called on up to    *)
(* MaxTechs technology profiles, one compatibility score per profile in    *)
(* the same order (as generate_comparison builds them), and the criteria   *)
(* of a requirement set.  Two profiles of a list may be the same one: two  *)
(* requested names can resolve to one knowledge-base entry.                *)
(***************************************************************************)
MaxTechs == 2

RecProfiles == {REST, GraphQL, PostgreSQL, MongoDB, create_fallback_profile("Foobar123")}

\* Compatibility scores, in units of 1/ScoreScale.
RecScoreValues == {0, 5000, 5800, 7000, 8500}

criteria_of(r) ==
    [dimension_weights |-> process_requirements(r, FALSE).dimension_weights,
     priority_factors  |-> process_requirements(r, FALSE).priority_factors]

RecCriteria ==
    {criteria_of([team_size |-> 3, budget |-> "LOW", timeline |-> "TIGHT",
                  scalability_needs |-> "LARGE", expertise_level |-> "INTERMEDIATE"]),
     criteria_of([team_size |-> 5, budget |-> "HIGH", timeline |-> "FLEXIBLE",
                  scalability_needs |-> "SMALL", expertise_level |-> "EXPERT"])}

InitRecommendation ==
    /\ RpIdle
    /\ CeIdle
    /\ AppIdle
    /\ \E n \in 1..MaxTechs :
           /\ technologies \in [1..n -> RecProfiles]
           /\ \E values \in [1..n -> RecScoreValues] :
                  compatibility_scores =
                      [i \in 1..n |-> [technology |-> technologies[i].name,
                                       score |-> values[i]]]
    /\ re_criteria \in RecCriteria
    /\ re_call = "idle"
    /\ re_result = NoRecommendation

\* engine.generate_recommendation(technologies, compatibility_scores, criteria)
CallGenerateRecommendation ==
    /\ re_call = "idle"
    /\ re_call' = "generate_recommendation"
    /\ re_result' = generate_recommendation(technologies, compatibility_scores, re_criteria)
    /\ UNCHANGED <<technologies, compatibility_scores, re_criteria, rpVars, ceVars, appVars>>

\* engine._create_ranked_choices(technologies, compatibility_scores, criteria)
CallCreateRankedChoices ==
    /\ re_call = "idle"
    /\ re_call' = "create_ranked_choices"
    /\ re_result' =
           IF create_ranked_choices_raises(technologies, compatibility_scores)
           THEN [NoRecommendation EXCEPT !.raised = "KeyError"]
           ELSE [NoRecommendation EXCEPT !.ranked_choices =
                    create_ranked_choices(technologies, compatibility_scores)]
    /\ UNCHANGED <<technologies, compatibility_scores, re_criteria, rpVars, ceVars, appVars>>

NextRecommendation ==
    \/ CallGenerateRecommendation
    \/ CallCreateRankedChoices

SpecRecommendation == InitRecommendation /\ [][NextRecommendation]_vars

(***************************************************************************)
(* SpecConfidence: the same calls on distinct technologies, with scores    *)
(* around every threshold of _calculate_confidence.                        *)
(***************************************************************************)
ConfidenceScoreValues ==
    {0, 3000, 4000, 5000, 5100, 5500, 6000, 7000, 8000, 8400, 8500, 8900, ScoreScale}

ConfidenceProfiles ==
    <<create_fallback_profile("Foobar123"), create_fallback_profile("Foobar456"),
      create_fallback_profile("Foobar789"), create_fallback_profile("Foobar000")>>

InitConfidence ==
    /\ RpIdle
    /\ CeIdle
    /\ AppIdle
    /\ \E n \in 1..MaxTechs :
           /\ technologies = SubSeq(ConfidenceProfiles, 1, n)
           /\ \E values \in [1..n -> ConfidenceScoreValues] :
                  compatibility_scores =
                      [i \in 1..n |-> [technology |-> technologies[i].name,
                                       score |-> values[i]]]
    /\ re_criteria = criteria_of([team_size |-> 3, budget |-> "LOW", timeline |-> "TIGHT",
                                  scalability_needs |-> "LARGE",
                                  expertise_level |-> "INTERMEDIATE"])
    /\ re_call = "idle"
    /\ re_result = NoRecommendation

SpecConfidence == InitConfidence /\ [][NextRecommendation]_vars

(***************************************************************************)
(* SpecCaveats: the same calls on distinct technologies, two of them       *)
(* experimental, with scores around the thresholds of _generate_caveats    *)
(* and _identify_decision_factors (0.05, 0.1, 0.6, 0.7) and with criteria  *)
(* that weigh three dimensions above 0.3, or none above 0.15.              *)
(***************************************************************************)
CaveatProfiles ==
    <<Profile("Deno", "Runtime", 6, 6, 6, 6, 6, "EXPERIMENTAL"), REST,
      Profile("Bun", "Runtime", 6, 6, 6, 6, 6, "EXPERIMENTAL"), GraphQL>>

CaveatScoreValues == {0, 5000, 5500, 5800, 6000, 7000, 8500}

CaveatCriteria ==
    RecCriteria \cup
    {[dimension_weights |->
          [d \in StandardDimensions |->
              IF d \in {"cost", "scalability", "complexity"}
              THEN (31 * Scale) \div 100 ELSE (35 * Scale) \div 1000],
      priority_factors |-> <<>>],
     [dimension_weights |-> [d \in StandardDimensions |-> Scale \div 10],
      priority_factors |-> <<>>]}

InitCaveats ==
    /\ RpIdle
    /\ CeIdle
    /\ AppIdle
    /\ \E n \in 1..MaxTechs :
           /\ technologies = SubSeq(CaveatProfiles, 1, n)
           /\ \E values \in [1..n -> CaveatScoreValues] :
                  compatibility_scores =
                      [i \in 1..n |-> [technology |-> technologies[i].name,
                                       score |-> values[i]]]
    /\ re_criteria \in CaveatCriteria
    /\ re_call = "idle"
    /\ re_result = NoRecommendation

SpecCaveats == InitCaveats /\ [][NextRecommendation]_vars

\* generate_recommendation returned a Recommendation.
RecommendationReturned ==
    re_call = "generate_recommendation" /\ re_result.raised = "none"

(***************************************************************************)
(* C2.  Every Recommendation returned by generate_recommendation has its   *)
(* ranked_choices in non-increasing score order, and no technology appears *)
(* in the ranking more than once.                                          *)
(***************************************************************************)
C2_RankingSortedAndUnique ==
    RecommendationReturned =>
        LET ranked == re_result.ranked_choices
        IN  /\ \A k \in 1..Len(ranked) : \A l \in 1..Len(ranked) :
                   k < l => ranked[k].score >= ranked[l].score
            /\ \A k \in 1..Len(ranked) : \A l \in 1..Len(ranked) :
                   k # l => ranked[k].technology # ranked[l].technology

\* A Recommendation is returned for two technologies given with the lower
\* score first.
C2_ReturnedForUnsortedScores ==
    /\ RecommendationReturned
    /\ Len(compatibility_scores) = 2
    /\ compatibility_scores[1].score < compatibility_scores[2].score
    /\ re_result.ranked_choices[1].technology = compatibility_scores[2].technology

(***************************************************************************)
(* C14.  The ranking is the stable descending sort of the compatibility    *)
(* scores: the score given at position i is found in the ranking after     *)
(* every higher score and after the equal scores given before it, so the   *)
(* ranking is a permutation of the input and equal scores keep their       *)
(* input order.                                                            *)
(***************************************************************************)
StableRank(scores, i) ==
    1 + Cardinality({j \in 1..Len(scores) : scores[j].score > scores[i].score})
      + Cardinality({j \in 1..(i - 1) : scores[j].score = scores[i].score})

C14_RankingIsStableDescendingSort ==
    (/\ re_call \in {"generate_recommendation", "create_ranked_choices"}
     /\ re_result.raised = "none")
    => /\ Len(re_result.ranked_choices) = Len(compatibility_scores)
       /\ \A i \in 1..Len(compatibility_scores) :
              LET choice == re_result.ranked_choices[StableRank(compatibility_scores, i)]
              IN  /\ choice.technology = compatibility_scores[i].technology
                  /\ choice.score = compatibility_scores[i].score

\* Two different technologies with equal scores have been ranked, the one
\* given first before the other.
C14_TieKeptInInputOrder ==
    /\ re_call = "generate_recommendation"
    /\ re_result.raised = "none"
    /\ Len(compatibility_scores) >= 2
    /\ compatibility_scores[1].score = compatibility_scores[2].score
    /\ compatibility_scores[1].technology # compatibility_scores[2].technology
    /\ \E k, l \in 1..Len(re_result.ranked_choices) :
           /\ k < l
           /\ re_result.ranked_choices[k].technology = compatibility_scores[1].technology
           /\ re_result.ranked_choices[l].technology = compatibility_scores[2].technology

(***************************************************************************)
(* C6.  With at least two technologies and a positive runner-up score the  *)
(* confidence of the top-ranked technology is a function of the gap        *)
(* g = (top - runner_up) / runner_up and the top score s: g <= 2% low;     *)
(* g <= 5% medium if s >= 0.85 else low; g <= 15% high if s >= 0.8, medium *)
(* if s >= 0.6, else low; g > 15% high if s >= 0.7, medium if s >= 0.5,    *)
(* else low.  With a runner-up score of 0, for every entry below the top   *)
(* and for a single technology the absolute thresholds apply (s >= 0.8     *)
(* high, s >= 0.6 medium, else low).                                       *)
(***************************************************************************)
C6_AtLeast(s, hundredths) == s * 100 >= hundredths * ScoreScale

C6_Absolute(s) ==
    IF C6_AtLeast(s, 80) THEN "HIGH" ELSE IF C6_AtLeast(s, 60) THEN "MEDIUM" ELSE "LOW"

\* g <= percent%, for g = (top - runner_up) / runner_up and runner_up > 0.
C6_GapWithin(top, runner_up, percent) == 100 * (top - runner_up) <= percent * runner_up

C6_ByGap(top, runner_up) ==
    CASE C6_GapWithin(top, runner_up, 2) -> "LOW"
      [] ~C6_GapWithin(top, runner_up, 2) /\ C6_GapWithin(top, runner_up, 5) ->
            IF C6_AtLeast(top, 85) THEN "MEDIUM" ELSE "LOW"
      [] ~C6_GapWithin(top, runner_up, 5) /\ C6_GapWithin(top, runner_up, 15) ->
            IF C6_AtLeast(top, 80) THEN "HIGH"
            ELSE IF C6_AtLeast(top, 60) THEN "MEDIUM" ELSE "LOW"
      [] ~C6_GapWithin(top, runner_up, 15) ->
            IF C6_AtLeast(top, 70) THEN "HIGH"
            ELSE IF C6_AtLeast(top, 50) THEN "MEDIUM" ELSE "LOW"

\* The call produced ranked choices.
RankedChoicesProduced ==
    /\ re_call \in {"generate_recommendation", "create_ranked_choices"}
    /\ re_result.raised = "none"

C6_ConfidenceFollowsGapAndScore ==
    RankedChoicesProduced =>
        LET ranked == re_result.ranked_choices
        IN  /\ ranked[1].confidence =
                   IF Len(ranked) >= 2 /\ ranked[2].score > 0
                   THEN C6_ByGap(ranked[1].score, ranked[2].score)
                   ELSE C6_Absolute(ranked[1].score)
            /\ \A k \in 2..Len(ranked) : ranked[k].confidence = C6_Absolute(ranked[k].score)

\* The top-ranked technology leads a positive runner-up by exactly 5% with a
\* score of 0.84: low confidence, where the absolute thresholds say high.
C6_LowConfidenceAtFivePercentGap ==
    /\ RankedChoicesProduced
    /\ Len(re_result.ranked_choices) >= 2
    /\ re_result.ranked_choices[1].score = 8400
    /\ re_result.ranked_choices[2].score = 8000
    /\ re_result.ranked_choices[1].confidence = "LOW"

(***************************************************************************)
(* C7.  The scalability-focused and the simplicity-focused scenarios are   *)
(* included exactly when the technology they suggest (maximum scalability  *)
(* score, minimum complexity score) differs from the top-ranked technology *)
(* of the recommendation.                                                  *)
(***************************************************************************)
HasScenario(scenario) ==
    \E k \in 1..Len(re_result.alternative_scenarios) :
        re_result.alternative_scenarios[k].scenario = scenario

C7_ScenariosIffSuggestedIsNotTopRanked ==
    RecommendationReturned =>
        LET top_ranked == re_result.ranked_choices[1].technology
            scalable == scalability_focused_tech(technologies, compatibility_scores, 1, 0, "")
            simple == simplicity_focused_tech(technologies, compatibility_scores, 1, 12, "")
        IN  /\ HasScenario(ScenarioScalability) <=> scalable # top_ranked
            /\ HasScenario(ScenarioSimplicity) <=> simple # top_ranked

(***************************************************************************)
(* C8.  The cost-focused scenario is included in the Recommendation        *)
(* whenever at least one compared technology has a cost dimension,         *)
(* whatever the cost scores are.                                           *)
(***************************************************************************)
C8_CostScenarioAlwaysIncluded ==
    RecommendationReturned =>
        ((\E k \in 1..Len(technologies) : "cost" \in DOMAIN technologies[k].dimensions)
            => HasScenario(ScenarioBudget))

(***************************************************************************)
(* Spec: a RefereeApplication is constructed and run(args) is called once. *)
(* Each action is one stage of run; a stage that returns sets exit_code    *)
(* and moves to "done".                                                    *)
(***************************************************************************)
RunTechnologyLists ==
    {<<"REST", "GraphQL">>, <<"REST", "REST API">>, <<"rest", "Foobar123">>,
     <<"", "REST">>, <<"REST">>, <<"REST", "rest">>,
     <<"PostgreSQL", "MongoDB", "GraphQL">>, <<"Redis", "Cloud DB", "Foobar123">>}

RunTeamSizes == {0, 3, 8, MaxTeamSize}

RunCustomDimensions ==
    {<<>>, <<"security">>, <<"Cost">>,
     <<"security", "latency", "licensing", "support", "tooling", "testing">>}

RunArgs ==
    [technologies : RunTechnologyLists, team_size : RunTeamSizes,
     budget : BudgetLevel, timeline : TimelineLevel, scalability : ScaleLevel,
     expertise : ExpertiseLevel, custom_dimensions : RunCustomDimensions,
     no_matrix : {FALSE}, no_recommendation : BOOLEAN, max_technologies : {5}]

Init ==
    /\ RpIdle
    /\ CeIdle
    /\ ReIdle
    /\ args \in RunArgs
    /\ pc = "start"
    /\ detect_original = TRUE
    /\ RunLocalsUnset

\* run returns code.
Return(code) == pc' = "done" /\ exit_code' = code

\* comparison_request = self.input_parser.parse_args(args)
RunParseArgs ==
    /\ pc = "start"
    /\ IF parse_args(args).raised # "none"
       THEN Return(1) /\ UNCHANGED comparison_request
       ELSE /\ comparison_request' = parse_args(args).request
            /\ pc' = "parsed"
            /\ UNCHANGED exit_code
    /\ UNCHANGED <<args, detect_original, warnings, run_criteria, technology_profiles,
                   unknown_technologies, fallback_technologies, comparison_result,
                   recommendation, rpVars, ceVars, reVars>>

\* The first process_requirements call: a ConflictingRequirementsError is
\* printed as warnings, any other exception ends the run.
RunProcessRequirements ==
    /\ pc = "parsed"
    /\ LET result == process_requirements(comparison_request.project_requirements,
                                          detect_original)
       IN  CASE result.raised = "ConflictingRequirementsError" ->
                   /\ warnings' = result.conflicts
                   /\ pc' = "conflict"
                   /\ UNCHANGED <<run_criteria, exit_code>>
             [] result.raised = "RequirementsProcessingError" ->
                   /\ Return(1)
                   /\ UNCHANGED <<warnings, run_criteria>>
             [] result.raised = "none" ->
                   /\ run_criteria' = [dimension_weights |-> result.dimension_weights,
                                       priority_factors |-> result.priority_factors]
                   /\ pc' = "weighted"
                   /\ UNCHANGED <<warnings, exit_code>>
    /\ UNCHANGED <<args, detect_original, comparison_request, technology_profiles,
                   unknown_technologies, fallback_technologies, comparison_result,
                   recommendation, rpVars, ceVars, reVars>>

\* The conflict bypass: _detect_requirement_conflicts is replaced by
\* `lambda req: []`, process_requirements is called again, and the method is
\* restored only if that call returns.
RunBypassConflicts ==
    /\ pc = "conflict"
    /\ LET result == process_requirements(comparison_request.project_requirements, FALSE)
       IN  IF result.raised # "none"
           THEN /\ Return(1)
                /\ detect_original' = FALSE
                /\ UNCHANGED run_criteria
           ELSE /\ run_criteria' = [dimension_weights |-> result.dimension_weights,
                                    priority_factors |-> result.priority_factors]
                /\ detect_original' = TRUE
                /\ pc' = "weighted"
                /\ UNCHANGED exit_code
    /\ UNCHANGED <<args, warnings, comparison_request, technology_profiles,
                   unknown_technologies, fallback_technologies, comparison_result,
                   recommendation, rpVars, ceVars, reVars>>

\* The lookups of the names that occur in RunTechnologyLists.
RunNames == UNION {{list[k] : k \in 1..Len(list)} : list \in RunTechnologyLists}
RunFound == [n \in RunNames |-> get_technology_profile(n)]
RunLookedUp == [n \in RunNames |-> get_technology_profile_with_fallback(n)]

\* The lookup loop of run and the check that two profiles remain.
RunAnalyzeTechnologies ==
    /\ pc = "weighted"
    /\ LET names == comparison_request.technologies
           found == [k \in 1..Len(names) |-> RunFound[names[k]]]
           looked_up == [k \in 1..Len(names) |-> RunLookedUp[names[k]]]
           positions == [k \in 1..Len(names) |-> k]
           usable == SelectSeq(positions, LAMBDA k : looked_up[k] # NoProfile)
           unknown == SelectSeq(positions, LAMBDA k : looked_up[k] = NoProfile)
           generic == SelectSeq(positions, LAMBDA k :
                          found[k] = NoProfile /\ looked_up[k] # NoProfile)
           profiles == [k \in 1..Len(usable) |-> looked_up[usable[k]]]
       IN  /\ technology_profiles' = profiles
           /\ unknown_technologies' = [k \in 1..Len(unknown) |-> names[unknown[k]]]
           /\ fallback_technologies' = [k \in 1..Len(generic) |-> names[generic[k]]]
           /\ IF Len(profiles) < 2
              THEN Return(1)
              ELSE pc' = "analyzed" /\ UNCHANGED exit_code
    /\ UNCHANGED <<args, detect_original, warnings, comparison_request, run_criteria,
                   comparison_result, recommendation, rpVars, ceVars, reVars>>

\* comparison_engine.generate_comparison(...).  ComparisonError ends the run;
\* so does InsufficientDataError, whose handler calls
\* self._generate_fallback_comparison, which RefereeApplication does not
\* have, and any other exception.
RunGenerateComparison ==
    /\ pc = "analyzed"
    /\ LET result == generate_comparison(technology_profiles, run_criteria,
                                         comparison_request.custom_dimensions)
       IN  IF result.raised # "none"
           THEN Return(1) /\ UNCHANGED comparison_result
           ELSE /\ comparison_result' = result
                /\ pc' = "compared"
                /\ UNCHANGED exit_code
    /\ UNCHANGED <<args, detect_original, warnings, comparison_request, run_criteria,
                   technology_profiles, unknown_technologies, fallback_technologies,
                   recommendation, rpVars, ceVars, reVars>>

\* The recommendation, if requested; an exception leaves recommendation None
\* (its raised field keeps what was caught).
RunGenerateRecommendation ==
    /\ pc = "compared"
    /\ recommendation' =
           IF comparison_request.include_recommendation
           THEN generate_recommendation(technology_profiles,
                                        comparison_result.compatibility_scores,
                                        run_criteria)
           ELSE NoRecommendation
    /\ pc' = "recommended"
    /\ UNCHANGED <<args, detect_original, warnings, comparison_request, run_criteria,
                   technology_profiles, unknown_technologies, fallback_technologies,
                   comparison_result, exit_code, rpVars, ceVars, reVars>>

\* Formatting and printing the report, then return 0.
RunFormatOutput ==
    /\ pc = "recommended"
    /\ Return(0)
    /\ UNCHANGED <<args, detect_original, warnings, comparison_request, run_criteria,
                   technology_profiles, unknown_technologies, fallback_technologies,
                   comparison_result, recommendation, rpVars, ceVars, reVars>>

Next ==
    \/ RunParseArgs
    \/ RunProcessRequirements
    \/ RunBypassConflicts
    \/ RunAnalyzeTechnologies
    \/ RunGenerateComparison
    \/ RunGenerateRecommendation
    \/ RunFormatOutput

Spec == Init /\ [][Next]_vars

\* run has returned.
RunReturned == pc = "done"

(***************************************************************************)
(* C4.  A conflict does not block processing: run prints every detected    *)
(* conflict as a warning, recomputes the WeightedCriteria with conflict    *)
(* detection bypassed, obtains weights that pass validation and goes on to *)
(* the technologies and the comparison.                                    *)
(***************************************************************************)
C4_ConflictDoesNotBlockRun ==
    (RunReturned /\ warnings # <<>>) =>
        /\ warnings = detect_requirement_conflicts(comparison_request.project_requirements)
        /\ run_criteria # NoCriteria
        /\ validate_weights(run_criteria.dimension_weights) = "ok"

(***************************************************************************)
(* C10.  run returns 1 only when the input is malformed or fewer than two  *)
(* usable technology profiles remain after lookup and fallback; every      *)
(* well-formed request with at least two usable technologies returns 0.    *)
(***************************************************************************)
Malformed(a) == parse_args(a).raised # "none"

UsableProfiles(a) ==
    SelectSeq(a.technologies, LAMBDA n : get_technology_profile_with_fallback(n) # NoProfile)

C10_HardFailureOnlyForBadInput ==
    RunReturned =>
        (exit_code = 1 <=> (Malformed(args) \/ Len(UsableProfiles(args)) < 2))

(***************************************************************************)
(* C16.  In a returned Recommendation each caveat depends on its own       *)
(* condition only: the moderate-compatibility caveat is present iff every  *)
(* score is below 0.6; the maturity caveats name, in input order, the      *)
(* experimental technologies scoring at least 0.7; the trade-off caveat is *)
(* present iff at least three dimensions weigh more than 0.3; the          *)
(* very-close caveat is present iff there are two technologies and the two *)
(* highest scores are less than 0.05 apart; and the requirements-may-      *)
(* change caveat is the last caveat.                                       *)
(***************************************************************************)
CaveatsOfKind(kind) == SelectSeq(re_result.caveats, LAMBDA c : c.kind = kind)

\* The two highest scores are less than hundredths/100 apart.
TopTwoWithin(hundredths) ==
    \E i, j \in 1..Len(compatibility_scores) :
        /\ i # j
        /\ \A k \in 1..Len(compatibility_scores) :
               /\ compatibility_scores[k].score <= compatibility_scores[i].score
               /\ k # i => compatibility_scores[k].score <= compatibility_scores[j].score
        /\ (compatibility_scores[i].score - compatibility_scores[j].score) * 100
               < hundredths * ScoreScale

ExperimentalAndPromising(sc) ==
    /\ sc.score * 10 >= 7 * ScoreScale
    /\ \E t \in 1..Len(technologies) :
           /\ technologies[t].name = sc.technology
           /\ technologies[t].maturity = "EXPERIMENTAL"

C16_CaveatsTriggeredIndependently ==
    RecommendationReturned =>
        LET promising == SelectSeq(compatibility_scores, ExperimentalAndPromising)
            heavy == {d \in DOMAIN re_criteria.dimension_weights :
                         re_criteria.dimension_weights[d] * 10 > 3 * Scale}
        IN  /\ Len(CaveatsOfKind("moderate")) =
                   IF \A k \in 1..Len(compatibility_scores) :
                          compatibility_scores[k].score * 10 < 6 * ScoreScale
                   THEN 1 ELSE 0
            /\ CaveatsOfKind("experimental") =
                   [k \in 1..Len(promising) |->
                       [kind |-> "experimental", subject |-> promising[k].technology]]
            /\ Len(CaveatsOfKind("trade-offs")) = IF Cardinality(heavy) >= 3 THEN 1 ELSE 0
            /\ Len(CaveatsOfKind("close")) = IF TopTwoWithin(5) THEN 1 ELSE 0
            /\ Len(CaveatsOfKind("may change")) = 1
            /\ re_result.caveats[Len(re_result.caveats)].kind = "may change"
            /\ Len(re_result.caveats) =
                   Len(CaveatsOfKind("moderate")) + Len(CaveatsOfKind("experimental"))
                   + Len(CaveatsOfKind("trade-offs")) + Len(CaveatsOfKind("close")) + 1

\* A maturity caveat and the trade-off caveat are present without the
\* moderate and the very-close one.
C16_MaturityAndTradeoffCaveatsOnly ==
    /\ RecommendationReturned
    /\ Len(compatibility_scores) = 2
    /\ Len(CaveatsOfKind("experimental")) = 1
    /\ Len(CaveatsOfKind("trade-offs")) = 1
    /\ CaveatsOfKind("moderate") = <<>>
    /\ CaveatsOfKind("close") = <<>>
    /\ Len(re_result.caveats) = 3

(***************************************************************************)
(* C17.  key_decision_factors of a returned Recommendation is never empty  *)
(* and consists, in this order, of: the dimensions among the three         *)
(* highest-weighted that weigh more than 0.15, heaviest first; the first   *)
(* two priority factors; the close-competition factor iff there are two    *)
(* technologies and the two highest scores are less than 0.1 apart; and    *)
(* the generic overall-compatibility factor iff there is nothing else.     *)
(***************************************************************************)
FactorsOfKind(kind) == SelectSeq(re_result.key_decision_factors, LAMBDA f : f.kind = kind)

C17_DecisionFactorsInOrder ==
    RecommendationReturned =>
        LET w == re_criteria.dimension_weights
            by_weight == FactorsOfKind("requirements")
            by_priority == FactorsOfKind("priority")
            close == FactorsOfKind("close")
            overall == FactorsOfKind("overall")
            given == re_criteria.priority_factors
        IN  /\ re_result.key_decision_factors # <<>>
            /\ re_result.key_decision_factors = by_weight \o by_priority \o close \o overall
            /\ Len(by_weight) <= 3
            /\ \A k \in 1..Len(by_weight) :
                   /\ by_weight[k].subject \in DOMAIN w
                   /\ w[by_weight[k].subject] * 100 > 15 * Scale
                   /\ \A l \in (k + 1)..Len(by_weight) :
                          /\ by_weight[l].subject # by_weight[k].subject
                          /\ w[by_weight[k].subject] >= w[by_weight[l].subject]
            /\ \A d \in DOMAIN w :
                   (w[d] * 100 > 15 * Scale
                    /\ \A k \in 1..Len(by_weight) : by_weight[k].subject # d)
                   => /\ Len(by_weight) = 3
                      /\ \A k \in 1..3 : w[by_weight[k].subject] >= w[d]
            /\ by_priority = [k \in 1..Min2(2, Len(given)) |->
                                 [kind |-> "priority", subject |-> given[k]]]
            /\ Len(close) = IF TopTwoWithin(10) THEN 1 ELSE 0
            /\ Len(overall) =
                   IF by_weight = <<>> /\ by_priority = <<>> /\ close = <<>> THEN 1 ELSE 0

\* A Recommendation whose only decision factor is the generic one: no
\* weight above 0.15, no priority factor, and top scores 0.1 or more apart.
C17_OnlyTheGenericFactor ==
    /\ RecommendationReturned
    /\ Len(compatibility_scores) = 2
    /\ re_criteria.priority_factors = <<>>
    /\ re_result.key_decision_factors = <<[kind |-> "overall", subject |-> "compatibility"]>>

(***************************************************************************)
(* SpecComparison: the entry points that take the technologies and the     *)
(* custom dimensions of a comparison.  ce_technologies are the profiles,   *)
(* custom_dimensions the custom dimension names; one of                    *)
(* InputParser.parse_args (on the names of the profiles),                  *)
(* ComparisonEngine.generate_comparison and create_tradeoff_matrix is      *)
(* called, and ce_result is what the call produced.                        *)
(***************************************************************************)
ComparisonTechnologyLists ==
    {<<>>, <<REST>>, <<REST, GraphQL>>, <<GraphQL, REST>>, <<REST, React>>,
     <<React, Vue, REST>>, <<PostgreSQL, MongoDB, GraphQL>>,
     <<create_fallback_profile("Foobar123"), REST>>,
     <<REST, GraphQL, AWSLambda, EC2>>,
     <<REST, GraphQL, AWSLambda, EC2, React>>,
     <<REST, GraphQL, AWSLambda, EC2, React, Vue>>}

ComparisonCustomDimensions ==
    RunCustomDimensions
        \cup {<<"cost">>, <<" cost">>, <<"security", "latency">>, <<"security", "Security">>,
              <<"security", "security">>, <<"security", "">>, <<" ">>}

\* NoCriteria is also the WeightedCriteria with no dimension weights.
ComparisonCriteria == RecCriteria \cup {NoCriteria}

\* The technologies whose calculation may have been replaced by one that
\* raises.
ComparisonFailing == SUBSET {"REST", "MongoDB"}

InitComparison ==
    /\ RpIdle
    /\ ReIdle
    /\ AppIdle
    /\ technology = NoTechnology
    /\ ce_call = "idle"
    /\ ce_result = NoScore
    /\ ce_technologies \in ComparisonTechnologyLists
    /\ custom_dimensions \in ComparisonCustomDimensions
    /\ weighted_criteria \in ComparisonCriteria
    /\ calculation_fails \in ComparisonFailing

\* The command line that names ce_technologies and custom_dimensions.
ComparisonArgs ==
    [technologies |-> [k \in 1..Len(ce_technologies) |-> ce_technologies[k].name],
     team_size |-> 3, budget |-> "LOW", timeline |-> "TIGHT", scalability |-> "LARGE",
     expertise |-> "INTERMEDIATE", custom_dimensions |-> custom_dimensions,
     no_matrix |-> FALSE, no_recommendation |-> FALSE, max_technologies |-> 5]

\* input_parser.parse_args(args)
CallParseArgs ==
    /\ ce_call = "idle"
    /\ ce_call' = "parse_args"
    /\ ce_result' = parse_args(ComparisonArgs)
    /\ UNCHANGED <<technology, weighted_criteria, ce_technologies, custom_dimensions,
                   calculation_fails, rpVars, reVars, appVars>>

\* engine.generate_comparison(technologies, weighted_criteria, custom_dimensions)
CallGenerateComparison ==
    /\ ce_call = "idle"
    /\ ce_call' = "generate_comparison"
    /\ ce_result' = generate_comparison_patched(ce_technologies, weighted_criteria,
                                                custom_dimensions, calculation_fails)
    /\ UNCHANGED <<technology, weighted_criteria, ce_technologies, custom_dimensions,
                   calculation_fails, rpVars, reVars, appVars>>

\* engine.create_tradeoff_matrix(technologies, dimensions) on the standard
\* dimensions followed by custom_dimensions.
CallCreateTradeoffMatrix ==
    /\ ce_call = "idle"
    /\ ce_call' = "create_tradeoff_matrix"
    /\ LET dimensions == standard_dimensions \o custom_dimensions
       IN  ce_result' =
               IF ~create_tradeoff_matrix_raises(ce_technologies, dimensions)
               THEN [raised |-> "none",
                     tradeoff_matrix |-> create_tradeoff_matrix(ce_technologies, dimensions)]
               ELSE [raised |-> "ComparisonError", tradeoff_matrix |-> NoMatrix]
    /\ UNCHANGED <<technology, weighted_criteria, ce_technologies, custom_dimensions,
                   calculation_fails, rpVars, reVars, appVars>>

NextComparison ==
    \/ CallParseArgs
    \/ CallGenerateComparison
    \/ CallCreateTradeoffMatrix

SpecComparison == InitComparison /\ [][NextComparison]_vars

(***************************************************************************)
(* C12.  Where generate_comparison's inputs pass its checks, a technology  *)
(* whose compatibility calculation raises gets the score 0.5, every other  *)
(* technology gets its calculated score, and the comparison is returned    *)
(* with exactly one score per technology, in input order.                  *)
(***************************************************************************)
C12_FailedCalculationGetsNeutralScore ==
    (/\ ce_call = "generate_comparison"
     /\ generate_comparison(ce_technologies, weighted_criteria, custom_dimensions).raised
            = "none")
    => /\ ce_result.raised = "none"
       /\ Len(ce_result.compatibility_scores) = Len(ce_technologies)
       /\ \A t \in 1..Len(ce_technologies) :
              /\ ce_result.compatibility_scores[t].technology = ce_technologies[t].name
              /\ ce_result.compatibility_scores[t].score =
                     IF ce_technologies[t].name \in calculation_fails
                     THEN ScoreScale \div 2
                     ELSE calculate_compatibility(ce_technologies[t],
                                                  weighted_criteria).score

\* A comparison was returned in which one calculation raised, for a
\* technology that scores otherwise when calculated, and another did not.
C12_OneCalculationFailed ==
    /\ ce_call = "generate_comparison"
    /\ ce_result.raised = "none"
    /\ \E t, u \in 1..Len(ce_technologies) :
           /\ ce_technologies[t].name \in calculation_fails
           /\ calculate_compatibility(ce_technologies[t], weighted_criteria).score
                  # ScoreScale \div 2
           /\ ce_result.compatibility_scores[t].score = ScoreScale \div 2
           /\ ce_technologies[u].name \notin calculation_fails
           /\ ce_result.compatibility_scores[u].score # ScoreScale \div 2

(***************************************************************************)
(* C13.  In a trade-off matrix a dimension has a highlight exactly when    *)
(* one technology's score in it is at least 0.5 above the score of every   *)
(* other compared technology (so never when two tie at the top, and never  *)
(* with a single technology), and its leader is that technology; the      *)
(* highlights follow the order of the dimensions.  Scores are in half      *)
(* points.                                                                 *)
(***************************************************************************)
MatrixReturned ==
    /\ ce_call \in {"generate_comparison", "create_tradeoff_matrix"}
    /\ ce_result.raised = "none"

LeadsByHalfPoint(matrix, t, d) ==
    /\ Len(matrix.technologies) >= 2
    /\ \A u \in 1..Len(matrix.technologies) :
           u # t => matrix.scores[t][d] - matrix.scores[u][d] >= 1

C13_HighlightIffLeadOfHalfPoint ==
    MatrixReturned =>
        LET matrix == ce_result.tradeoff_matrix
            techs == 1..Len(matrix.technologies)
            columns == [d \in 1..Len(matrix.dimensions) |-> d]
            led == SelectSeq(columns,
                             LAMBDA d : \E t \in techs : LeadsByHalfPoint(matrix, t, d))
            leader(d) == CHOOSE t \in techs : LeadsByHalfPoint(matrix, t, d)
        IN  /\ matrix.technologies = [t \in 1..Len(ce_technologies) |-> ce_technologies[t].name]
            /\ matrix.highlights =
                   [k \in 1..Len(led) |->
                       [dimension |-> matrix.dimensions[led[k]],
                        leader |-> matrix.technologies[leader(led[k])]]]

\* REST against GraphQL: ecosystem is highlighted with leader REST (5.0
\* against 4.0).
C13_EcosystemHighlightedForREST ==
    /\ ce_call = "generate_comparison"
    /\ ce_result.raised = "none"
    /\ ce_technologies = <<REST, GraphQL>>
    /\ \E k \in 1..Len(ce_result.tradeoff_matrix.highlights) :
           ce_result.tradeoff_matrix.highlights[k] =
               [dimension |-> "ecosystem", leader |-> "REST"]

(***************************************************************************)
(* C19.  Fewer than 2 or more than 5 technologies are rejected by          *)
(* parse_args (InputValidationError, no request) and by                    *)
(* generate_comparison (ValueError, no matrix and no score); 2 to 5        *)
(* technologies with distinct names pass the count check of both.          *)
(***************************************************************************)
C19_CountOutsideTwoToFiveRejected ==
    LET n == Len(ce_technologies)
    IN  /\ ce_call = "parse_args" =>
               /\ (n < 2 \/ n > 5) =>
                      ce_result = [raised |-> "InputValidationError", request |-> NoRequest]
               /\ (n >= 2 /\ n <= 5) =>
                      /\ validate_technology_count(ComparisonArgs.technologies)
                      /\ ce_result.raised = "none" <=>
                             (custom_dimensions # <<>> =>
                                  validate_custom_dimensions(custom_dimensions))
        /\ ce_call = "generate_comparison" =>
               /\ (n < 2 \/ n > 5) =>
                      /\ ce_result.raised = "ValueError"
                      /\ ce_result.tradeoff_matrix = NoMatrix
                      /\ ce_result.compatibility_scores = <<>>
               /\ (n >= 2 /\ n <= 5) => ce_result.raised # "ValueError"

\* generate_comparison has rejected six technologies.
C19_SixTechnologiesRejected ==
    /\ Len(ce_technologies) = 6
    /\ ce_call = "generate_comparison"
    /\ ce_result.raised = "ValueError"

(***************************************************************************)
(* C20.  parse_args judges custom dimension names after lowercasing and    *)
(* trimming them: the request is rejected when such a name equals a        *)
(* standard dimension name, when two of them coincide or when one is       *)
(* blank, and it is accepted otherwise (the other arguments being valid).  *)
(***************************************************************************)
ParsedWithValidCount ==
    /\ ce_call = "parse_args"
    /\ Len(ce_technologies) >= 2
    /\ Len(ce_technologies) <= 5

Normalized(name) == Strip(Lower(Chars(name)))

C20_CustomDimensionsJudgedNormalized ==
    ParsedWithValidCount =>
        (ce_result.raised = "InputValidationError" <=>
            \/ \E k \in 1..Len(custom_dimensions) : \E d \in StandardDimensions :
                   Normalized(custom_dimensions[k]) = Chars(d)
            \/ \E j, k \in 1..Len(custom_dimensions) :
                   j # k /\ Normalized(custom_dimensions[j]) = Normalized(custom_dimensions[k])
            \/ \E k \in 1..Len(custom_dimensions) : Normalized(custom_dimensions[k]) = <<>>)

\* The custom dimension "Cost" has been rejected.
C20_CostRejected ==
    /\ ParsedWithValidCount
    /\ custom_dimensions = <<"Cost">>
    /\ ce_result.raised = "InputValidationError"

\* C20 as stated: the names are compared as given, except that a collision
\* with a standard name ignores case; names that are non-blank, pairwise
\* different and different from every standard name ignoring case are
\* accepted.
C20_DistinctNamesAccepted ==
    ParsedWithValidCount =>
        (ce_result.raised = "InputValidationError" <=>
            \/ \E k \in 1..Len(custom_dimensions) : \E d \in StandardDimensions :
                   Lower(Chars(custom_dimensions[k])) = Chars(d)
            \/ \E j, k \in 1..Len(custom_dimensions) :
                   j # k /\ custom_dimensions[j] = custom_dimensions[k]
            \/ \E k \in 1..Len(custom_dimensions) : Strip(Chars(custom_dimensions[k])) = <<>>)

(***************************************************************************)
(* C18.  For a name that no knowledge-base entry matches (exactly, without *)
(* case, as a substring either way, or as an abbreviation) the lookup of   *)
(* run finds nothing and the lookup with fallback gives a profile with     *)
(* that name, 3.0 on each of the five standard dimensions, maturity STABLE *)
(* and, when the name contains no category keyword, category Technology.   *)
(***************************************************************************)
Unresolvable(technology_name) ==
    LET input == Strip(Lower(Chars(technology_name)))
    IN  \A k \in 1..Len(knowledge_base) :
            LET known == Lower(Chars(knowledge_base[k].name))
            IN  /\ knowledge_base[k].name # technology_name
                /\ known # Lower(Chars(technology_name))
                /\ ~Contains(known, input)
                /\ ~Contains(input, known)
                /\ ~is_abbreviation_match(input, known)

CategoryKeywords ==
    {"db", "database", "sql", "mongo", "redis", "elastic", "api", "rest", "graphql",
     "grpc", "aws", "azure", "gcp", "cloud", "lambda", "function", "react", "vue",
     "angular", "svelte", "frontend", "ui", "express", "django", "flask", "spring",
     "fastapi"}

HasCategoryKeyword(technology_name) ==
    \E keyword \in CategoryKeywords :
        Contains(Lower(Chars(technology_name)), Chars(keyword))

C18_UnresolvedNameGetsNeutralProfile ==
    [][(pc = "weighted" /\ pc' # "weighted") =>
          \A k \in 1..Len(comparison_request.technologies) :
              LET technology_name == comparison_request.technologies[k]
              IN  Unresolvable(technology_name) =>
                      /\ \E j \in 1..Len(fallback_technologies') :
                             fallback_technologies'[j] = technology_name
                      /\ \E j \in 1..Len(technology_profiles') :
                             LET profile == technology_profiles'[j]
                             IN  /\ profile.name = technology_name
                                 /\ DOMAIN profile.dimensions = StandardDimensions
                                 /\ \A d \in StandardDimensions : profile.dimensions[d] = 6
                                 /\ profile.maturity = "STABLE"
                                 /\ (~HasCategoryKeyword(technology_name)
                                        => profile.category = "Technology")]_vars

\* run looked up "Foobar123", found nothing and continued with the neutral
\* profile of category Technology.
C18_FoobarGetsGenericProfile ==
    /\ \E j \in 1..Len(fallback_technologies) : fallback_technologies[j] = "Foobar123"
    /\ \E j \in 1..Len(technology_profiles) :
           /\ technology_profiles[j].name = "Foobar123"
           /\ technology_profiles[j].category = "Technology"
           /\ \A d \in StandardDimensions : technology_profiles[j].dimensions[d] = 6

(***************************************************************************)
(* SpecSubstituted: run(args) on a RefereeApplication whose                *)
(* requirements_processor attribute has been replaced by an object whose   *)
(* process_requirements returns one of SubstituteCriteria.  With the       *)
(* RequirementsProcessor of the constructor generate_comparison never      *)
(* raises InsufficientDataError in run (five weights, and TechnologyProfile*)
(* requires five dimensions); WeightedCriteria accepts an empty            *)
(* dimension_weights, which makes _validate_comparison_inputs raise it.    *)
(***************************************************************************)
SubstituteCriteria ==
    {[dimension_weights |-> <<>>, priority_factors |-> <<>>],
     criteria_of([team_size |-> 3, budget |-> "LOW", timeline |-> "TIGHT",
                  scalability_needs |-> "LARGE", expertise_level |-> "INTERMEDIATE"])}

\* weighted_criteria = self.requirements_processor.process_requirements(...)
\* with the substituted processor, which returns.
RunSubstituteProcessRequirements ==
    /\ pc = "parsed"
    /\ run_criteria' \in SubstituteCriteria
    /\ pc' = "weighted"
    /\ UNCHANGED <<args, detect_original, warnings, comparison_request, technology_profiles,
                   unknown_technologies, fallback_technologies, comparison_result,
                   recommendation, exit_code, rpVars, ceVars, reVars>>

NextSubstituted ==
    \/ RunParseArgs
    \/ RunSubstituteProcessRequirements
    \/ RunAnalyzeTechnologies
    \/ RunGenerateComparison
    \/ RunGenerateRecommendation
    \/ RunFormatOutput

SpecSubstituted == Init /\ [][NextSubstituted]_vars

(***************************************************************************)
(* C11.  When generate_comparison raises InsufficientDataError, run        *)
(* completes with exit code 0 and a fallback comparison over the five      *)
(* standard dimensions, one score per technology, instead of aborting.     *)
(***************************************************************************)
C11_InsufficientDataFallsBack ==
    (/\ RunReturned
     /\ Len(technology_profiles) >= 2
     /\ validate_comparison_inputs(technology_profiles, run_criteria)
            = "InsufficientDataError")
    => /\ exit_code = 0
       /\ comparison_result.tradeoff_matrix.dimensions = standard_dimensions
       /\ Len(comparison_result.compatibility_scores) = Len(technology_profiles)

\* The call computed dimension weights (it did not stop at a conflict).
WeightsComputed ==
    \/ rp_call = "calculate_dimension_weights"
    \/ rp_call = "process_requirements"
         /\ rp_result.raised # "ConflictingRequirementsError"
         /\ rp_result.error # "requirements"

(***************************************************************************)
(* C1.  For every valid ProjectRequirements the weights of the Weight      *)
(* Calculator sum to 1.0 within 0.05 and each of the five lies in          *)
(* [0.05, 0.6], so process_requirements never rejects them in its output   *)
(* validation.                                                             *)
(***************************************************************************)
C1_WeightsAlwaysValid ==
    WeightsComputed =>
        /\ LET total == SumOver(rp_result.dimension_weights, StandardDimensions)
           IN  19 * Scale <= 20 * total /\ 20 * total <= 21 * Scale
        /\ \A d \in StandardDimensions :
              /\ 20 * rp_result.dimension_weights[d] >= Scale
              /\ 10 * rp_result.dimension_weights[d] <= 6 * Scale
        /\ rp_result.raised # "RequirementsProcessingError"

(***************************************************************************)
(* C5.  Conflict detection flags exactly the five rule combinations: the   *)
(* list of conflicts holds one description for each rule that holds of the *)
(* requirements, and none for a rule that does not hold.                   *)
(***************************************************************************)
RuleHolds(r) ==
    [c \in {Conflict1, Conflict2, Conflict3, Conflict4, Conflict5} |->
        CASE c = Conflict1 -> r.budget = "LOW" /\ r.scalability_needs = "LARGE"
                              /\ r.timeline = "TIGHT"
          [] c = Conflict2 -> r.expertise_level = "BEGINNER" /\ r.timeline = "TIGHT"
                              /\ r.scalability_needs = "LARGE"
          [] c = Conflict3 -> r.budget = "LOW" /\ r.expertise_level = "EXPERT"
                              /\ r.team_size >= 5
          [] c = Conflict4 -> r.scalability_needs = "SMALL" /\ r.team_size >= 8
          [] c = Conflict5 -> r.budget = "HIGH" /\ r.timeline = "TIGHT"
                              /\ r.expertise_level = "BEGINNER"]

C5_ConflictsExactlyTheFiveRules ==
    rp_call \in {"process_requirements", "detect_requirement_conflicts"} =>
        \A c \in DOMAIN RuleHolds(requirements) :
            Cardinality({i \in 1..Len(rp_result.conflicts) : rp_result.conflicts[i] = c})
              = (IF RuleHolds(requirements)[c] THEN 1 ELSE 0)

C5_TwoConflictsRaised ==
    /\ rp_call = "process_requirements"
    /\ rp_result.raised = "ConflictingRequirementsError"
    /\ Len(rp_result.conflicts) = 2
    /\ requirements.team_size = 8

(***************************************************************************)
(* C9.  When scalability_needs is large and at least two of budget=low,    *)
(* timeline=tight, expertise=beginner hold, at least one of scalability    *)
(* and performance is among the three highest weights returned by the      *)
(* Weight Calculator: fewer than three dimensions weigh strictly more.     *)
(***************************************************************************)
AmongTopThree(w, d) == Cardinality({o \in StandardDimensions : w[o] > w[d]}) < 3

ScalePriorityCase(r) ==
    /\ r.scalability_needs = "LARGE"
    /\ Cardinality({x \in {"budget", "timeline", "expertise"} :
            \/ x = "budget" /\ r.budget = "LOW"
            \/ x = "timeline" /\ r.timeline = "TIGHT"
            \/ x = "expertise" /\ r.expertise_level = "BEGINNER"}) >= 2

C9_ScaleOrPerformanceInTopThree ==
    (rp_call = "calculate_dimension_weights" /\ ScalePriorityCase(requirements)) =>
        \/ AmongTopThree(rp_result.dimension_weights, "scalability")
        \/ AmongTopThree(rp_result.dimension_weights, "performance")

\* The case with all three competing constraints and a team large enough for
\* the ecosystem weight to exceed the scalability weight.
C9_ScalePriorityCaseReached ==
    /\ rp_call = "calculate_dimension_weights"
    /\ ScalePriorityCase(requirements)
    /\ requirements.budget = "LOW" /\ requirements.timeline = "TIGHT"
    /\ requirements.expertise_level = "BEGINNER"
    /\ rp_result.dimension_weights["ecosystem"] > rp_result.dimension_weights["scalability"]
    /\ rp_result.dimension_weights["complexity"] > rp_result.dimension_weights["scalability"]


(***************************************************************************)
(* C22.  The weights the Weight Calculator returns are those of the        *)
(* documented sequence: the priority-guarantee pass on the normalized      *)
(* weights, then the scale-priority override on its outcome.               *)
(***************************************************************************)
NormalizedWeights == NormalizeRaw(BoostedWeights(requirements))

C22_PassesInDocumentedOrder ==
    rp_call = "calculate_dimension_weights" =>
        rp_result.dimension_weights
            = ScaleOverride(requirements, PriorityPass(requirements, NormalizedWeights))

\* Weights the priority pass changed, computed for requirements under which
\* the scale-priority override is considered.
C22_PriorityPassActedInScaleCase ==
    /\ rp_call = "calculate_dimension_weights"
    /\ ScalePriorityCase(requirements)
    /\ rp_result.dimension_weights # NormalizedWeights

(***************************************************************************)
(* C28.  The scale-priority override never changes the weights: when       *)
(* scalability_needs is large with two competing constraints, scalability  *)
(* or performance is already among the three highest normalized weights,   *)
(* and the returned weights are those of the priority pass applied to the  *)
(* normalized weights as they are.                                         *)
(***************************************************************************)
C28_ScaleOverrideNeverTaken ==
    rp_call = "calculate_dimension_weights" =>
        /\ ScalePriorityCase(requirements) =>
               \/ AmongTopThree(NormalizedWeights, "scalability")
               \/ AmongTopThree(NormalizedWeights, "performance")
        /\ ScaleOverride(requirements, NormalizedWeights) = NormalizedWeights
        /\ rp_result.dimension_weights = PriorityPass(requirements, NormalizedWeights)

\* Complexity and ecosystem both outweigh scalability after normalization,
\* which leaves scalability third.
C28_ScalabilityThirdAfterNormalization ==
    /\ rp_call = "calculate_dimension_weights"
    /\ ScalePriorityCase(requirements)
    /\ NormalizedWeights["complexity"] > NormalizedWeights["scalability"]
    /\ NormalizedWeights["ecosystem"] > NormalizedWeights["scalability"]
    /\ NormalizedWeights["cost"] < NormalizedWeights["scalability"]


(***************************************************************************)
(* C23.  In the weights the Weight Calculator returns, each of the up to   *)
(* three dimensions with the largest boosts above 0.02 weighs strictly     *)
(* more than 0.2, and when the normalized weights were all at least 0.05   *)
(* no returned weight is below 0.05.                                       *)
(***************************************************************************)
TopHighlighted ==
    Names(SubSeq(highlighted_dimensions(requirements), 1,
                 Min2(3, Len(highlighted_dimensions(requirements)))))

C23_HighlightedAboveBaselineFloorKept ==
    rp_call = "calculate_dimension_weights" =>
        /\ \A d \in TopHighlighted : 5 * rp_result.dimension_weights[d] > Scale
        /\ (\A d \in StandardDimensions : 20 * NormalizedWeights[d] >= Scale)
               => \A d \in StandardDimensions : 20 * rp_result.dimension_weights[d] >= Scale


(***************************************************************************)
(* C24.  process_requirements looks for conflicts before it calculates     *)
(* weights: on conflicting requirements it raises                          *)
(* ConflictingRequirementsError with every detected conflict and without   *)
(* weights, whatever the weights would have been; without a conflict it    *)
(* raises RequirementsProcessingError exactly when the weights fail the    *)
(* output validation, and returns them otherwise.                          *)
(***************************************************************************)
WeightsWithinLimits(w) ==
    /\ 19 * Scale <= 20 * SumOver(w, StandardDimensions)
    /\ 20 * SumOver(w, StandardDimensions) <= 21 * Scale
    /\ \A d \in StandardDimensions : 20 * w[d] >= Scale /\ 10 * w[d] <= 6 * Scale

Conflicting(r) == \E c \in DOMAIN RuleHolds(r) : RuleHolds(r)[c]

C25_MatrixGridsFollowInputs ==
    MatrixReturned =>
        LET matrix == ce_result.tradeoff_matrix
            rows == 1..Len(ce_technologies)
            columns == 1..Len(matrix.dimensions)
        IN  /\ matrix.dimensions
                   = <<"cost", "scalability", "complexity", "ecosystem", "performance">>
                         \o custom_dimensions
            /\ matrix.technologies = [t \in rows |-> ce_technologies[t].name]
            /\ DOMAIN matrix.scores = rows
            /\ DOMAIN matrix.explanations = rows
            /\ \A t \in rows :
                   /\ DOMAIN matrix.scores[t] = columns
                   /\ DOMAIN matrix.explanations[t] = columns
                   /\ \A d \in columns :
                          LET dimension == matrix.dimensions[d]
                              profile == ce_technologies[t]
                          IN  IF dimension \in DOMAIN profile.dimensions
                              THEN /\ matrix.scores[t][d] = profile.dimensions[dimension]
                                   /\ matrix.explanations[t][d]
                                          = dimension_explanation(profile, dimension)
                              ELSE /\ matrix.scores[t][d] = 6
                                   /\ matrix.explanations[t][d].text
                                          = "No specific data available for"
                                   /\ matrix.explanations[t][d].dimension = dimension

\* GraphQL and REST with the custom dimensions security and latency: two
\* rows of seven cells, REST's cost 4.5 and its latency the neutral 3.0.
C25_CustomColumnsNeutral ==
    /\ ce_call = "create_tradeoff_matrix"
    /\ ce_result.raised = "none"
    /\ ce_technologies = <<GraphQL, REST>>
    /\ custom_dimensions = <<"security", "latency">>
    /\ Len(ce_result.tradeoff_matrix.scores[2]) = 7
    /\ ce_result.tradeoff_matrix.scores[2][1] = 9
    /\ ce_result.tradeoff_matrix.scores[2][7] = 6


(***************************************************************************)
(* C26.  When run has returned, on whichever path, the processor's         *)
(* conflict detection is the method of the class again: calling            *)
(* process_requirements once more on the run's requirements, if they       *)
(* conflict, raises ConflictingRequirementsError.                          *)
(***************************************************************************)
C26_ConflictDetectionRestored ==
    RunReturned =>
        /\ detect_original
        /\ (comparison_request # NoRequest
            /\ Conflicting(comparison_request.project_requirements))
               => process_requirements(comparison_request.project_requirements,
                                       detect_original).raised
                      = "ConflictingRequirementsError"


(***************************************************************************)
(* C27.  The technology profiles that run hands to the comparison and the  *)
(* recommendation have pairwise distinct names, and the recommendation is  *)
(* never rejected for naming a technology twice.                           *)
(***************************************************************************)
C27_ProfilesPairwiseDistinct ==
    /\ \A j, k \in 1..Len(technology_profiles) :
           j # k => technology_profiles[j].name # technology_profiles[k].name
    /\ recommendation.raised # "ValidationError"


(***************************************************************************)
(* C29.  Custom dimensions that collide with no standard dimension affect  *)
(* only the trade-off matrix: generate_comparison called with them ends as *)
(* it does without them, with the same technologies and the same           *)
(* compatibility scores.                                                   *)
(***************************************************************************)
C29_CustomDimensionsOnlyAffectMatrix ==
    (/\ ce_call = "generate_comparison"
     /\ \A k \in 1..Len(custom_dimensions) : custom_dimensions[k] \notin StandardDimensions)
    => LET without == generate_comparison_patched(ce_technologies, weighted_criteria,
                                                  <<>>, calculation_fails)
       IN  /\ ce_result.raised = without.raised
           /\ ce_result.technologies = without.technologies
           /\ ce_result.compatibility_scores = without.compatibility_scores


(***************************************************************************)
(* C30.  In a run, the WeightedCriteria that process_requirements produced *)
(* have fewer than three dimensions weighing more than 0.3, and the        *)
(* recommendation never carries the caveat about multiple high-priority    *)
(* requirements.                                                           *)
(***************************************************************************)
C30_NoCompetingPrioritiesCaveat ==
    /\ run_criteria # NoCriteria =>
           Cardinality({d \in DOMAIN run_criteria.dimension_weights :
                           10 * run_criteria.dimension_weights[d] > 3 * Scale}) < 3
    /\ \A k \in 1..Len(recommendation.caveats) :
           recommendation.caveats[k].kind # "trade-offs"

\* A run that printed a recommendation made under criteria with one weight
\* above 0.3.
C30_RecommendedWithOneHighWeight ==
    /\ RunReturned
    /\ exit_code = 0
    /\ recommendation.raised = "none"
    /\ recommendation.ranked_choices # <<>>
    /\ \E d \in DOMAIN run_criteria.dimension_weights :
           10 * run_criteria.dimension_weights[d] > 3 * Scale

====
